---- MODULE Spec2Model ----
(***************************************************************************)
(* One request served by the conversational agent gateway: the MCP session *)
(* manager (src/src/mcp_client.py, and the older manager of src/ai_mcp.py), *)
(* the request handlers that open it (src/backend/api.py chat and          *)
(* chat_stream.generate, src/src/agent.py run_agent_mode) and the agent    *)
(* event loop they run inside the manager's scope.                         *)
(*                                                                         *)
(* Every await of the code is one step.  What the awaited party does (a    *)
(* provider, the language model, the agent framework, the caller who may   *)
(* cancel) is chosen nondeterministically.                                 *)
(***************************************************************************)
EXTENDS Integers, Sequences, FiniteSets, TLC

\* ------------------------------------------------------------------ bounds
MaxProviders == 2   \* length of the configured provider list
MaxCalls == 2       \* tool calls carried by one model response
MaxText == 1        \* characters of a model answer
MaxLog == 1         \* entries kept of the non-streaming handler's tools_used list

\* ------------------------------------------------------------ vocabulary
LocalTool == "retrieve_dosiblog_context"
UnknownTool == "bogus"
Chars == <<"a", "b", "c", "d">>

SeqsUpTo(S, n) == UNION {[1..k -> S] : k \in 0..n}
Range(s) == {s[i] : i \in DOMAIN s}
Reverse(s) == [i \in 1..Len(s) |-> s[Len(s) + 1 - i]]

\* What one provider may return from discovery: nothing, one tool, or two
\* tools of which one has the name another provider advertises too.
ToolLists == {<<>>, <<"search">>, <<"calc", "search">>}
\* What the model may answer: the first n characters of Chars.
TextOf(n) == [i \in 1..n |-> Chars[i]]
Texts == {TextOf(n) : n \in 0..MaxText}

VARIABLES
    entry,        \* which handler serves the request
    mode,         \* ChatRequest.mode
    nprov,        \* len(mcp_servers)
    pc,           \* where the handler is
    blocked,      \* the handler awaits something that never returns
    idx,          \* __aenter__: provider being set up
    step,         \* __aenter__: setup step about to be awaited (1..4)
    status,       \* per provider: pending, connecting, ready or failed
    advertised,   \* per provider: the tools it returned at discovery
    sessions,     \* self.sessions (provider ids)
    tools,        \* self.tools
    setupOrder,   \* providers in the order their transport opened
    teardownLog,  \* teardown awaits made, in order
    tpos,         \* __aexit__: position in the teardown walk
    tstep,        \* __aexit__: "session" or "client"
    teardownFailed,  \* some awaited exit raised or timed out
    aenterEnd,    \* how __aenter__ ended
    malformedAt,  \* provider whose descriptor had no usable url (0: none)
    bodyExc,      \* what left the scope body
    propagated,   \* what left the async-with statement
    cancelAt,     \* where a cancellation was delivered
    result,       \* what the caller observes
    all_tools,    \* the catalog handed to the agent
    llmType,      \* llm_config["type"]
    agState,      \* agent loop state
    pending,      \* tools of the last model response the framework will run
    unknownProposed,      \* the model proposed a name absent from the catalog
    invokedAfterUnknown,  \* a tool was invoked after such a proposal
    full_response,        \* streaming handler: text emitted so far
    final_answer,         \* non-streaming handlers: last final text
    tool_calls_made,      \* streaming handler
    seen_tools,           \* streaming handler
    tools_used,           \* non-streaming handler
    events,               \* server-sent events emitted
    history,              \* turns of the request's session
    store,                \* history_manager.store: session id -> turns
    oplog,                \* operations made on the store, with what each returned
    keyError,             \* a store operation indexed the dict with an absent key
    cfg_file,             \* config/mcp_servers.json: whether it exists, and its list
    cfg_env,              \* the servers of the MCP_SERVERS environment variable
    cfg_log,              \* requests made to the server endpoints, with their answers
    url_pc,               \* normalisation: "input", "stored" or "connected"
    url_in,               \* the url a client sent
    url_stored,           \* the url the add or update endpoint wrote
    url_final,            \* the url the manager connected to
    rw_pc,                \* local rewrite: "start", "rewritten" or "connected"
    rw_servers,           \* self.mcp_servers
    rw_orig,              \* the list as it was given to the manager
    rw_prefer,            \* self.prefer_local
    rw_registry_ok,       \* the import of mcp_servers.registry succeeds
    rw_failed,            \* the rewrite step raised and was caught
    rw_used,              \* the urls read by the provider loop
    mgr,                  \* concurrent managers: phase, position and self.sessions
    live,                 \* provider sessions open in the process
    actor,                \* the manager that took the last step
    slots,                \* concurrent requests of one process
    order,                \* requests in the order they completed
    tx_pc,                \* text of a stream: "stream", "done" or "error"
    tx_path,              \* "rag" (llm.astream) or "agent" (agent.astream)
    tx_all,               \* what the framework yields, in order
    tx_pos,               \* the item the handler's loop is at
    tx_full,              \* full_response
    tx_out,               \* the events the handler has yielded
    tx_saved,             \* the turns the handler has appended
    cr_pc,                \* credential: "start" or "opened"
    cr_desc,              \* server_config of one provider
    cr_params,            \* server_params given to streamablehttp_client
    sec_pc,               \* confidentiality: "start" or "answered"
    sec_cfg,              \* two stored configurations
    sec_req,              \* the request made to both
    sec_resp              \* the two responses

inputVars == <<entry, mode, nprov>>
ctlVars == <<pc, blocked, bodyExc, propagated, cancelAt, result>>
setupVars == <<idx, step, status, advertised, sessions, tools, setupOrder, aenterEnd, malformedAt>>
teardownVars == <<teardownLog, tpos, tstep, teardownFailed>>
agentVars == <<agState, pending, unknownProposed, invokedAfterUnknown>>
handlerVars == <<all_tools, llmType, full_response, final_answer, tool_calls_made,
                 seen_tools, tools_used, events, history>>
storeVars == <<store, oplog, keyError>>
cfgVars == <<cfg_file, cfg_env, cfg_log>>
urlVars == <<url_pc, url_in, url_stored, url_final>>
rwVars == <<rw_pc, rw_servers, rw_orig, rw_prefer, rw_registry_ok, rw_failed, rw_used>>
scopeVars == <<mgr, live, actor>>
raceVars == <<slots, order>>
textVars == <<tx_pc, tx_path, tx_all, tx_pos, tx_full, tx_out, tx_saved>>
credVars == <<cr_pc, cr_desc, cr_params>>
secVars == <<sec_pc, sec_cfg, sec_req, sec_resp>>
requestVars == <<inputVars, ctlVars, setupVars, teardownVars, agentVars, handlerVars>>
\* What a step of one request leaves alone: the process-wide state.
sideVars == <<storeVars, cfgVars, urlVars, rwVars, scopeVars, raceVars, textVars, credVars, secVars>>
vars == <<requestVars, sideVars>>

Providers == 1..MaxProviders
Entries == {"chat", "stream", "cli", "legacy"}

\* The older script keeps its own copy of the manager.
Variant == IF entry = "legacy" THEN "ai_mcp" ELSE "mcp_client"

RequestInit ==
    /\ entry \in Entries
    /\ mode \in {"agent", "rag"}
    /\ mode = "rag" => entry \in {"chat", "stream"}
    /\ nprov \in 0..MaxProviders
    /\ mode = "rag" => nprov = 0
    /\ pc = "start"
    /\ blocked = FALSE
    /\ idx = 0
    /\ step = 0
    /\ status = [p \in Providers |-> "pending"]
    /\ advertised = [p \in Providers |-> <<>>]
    /\ sessions = <<>>
    /\ tools = <<>>
    /\ setupOrder = <<>>
    /\ teardownLog = <<>>
    /\ tpos = 0
    /\ tstep = "session"
    /\ teardownFailed = FALSE
    /\ aenterEnd = "none"
    /\ malformedAt = 0
    /\ bodyExc = "none"
    /\ propagated = "none"
    /\ cancelAt = "none"
    /\ result = "none"
    /\ all_tools = <<>>
    /\ llmType = "none"
    /\ agState = "Idle"
    /\ pending = {}
    /\ unknownProposed = FALSE
    /\ invokedAfterUnknown = FALSE
    /\ full_response = <<>>
    /\ final_answer = <<>>
    /\ tool_calls_made = <<>>
    /\ seen_tools = {}
    /\ tools_used = <<>>
    /\ events = <<>>
    /\ history = <<>>

\* The handler whose variables stand still while another part is explored.
RequestAtRest == RequestInit /\ entry = "chat" /\ mode = "agent" /\ nprov = 0

StoreEmpty ==
    /\ store = <<>>
    /\ oplog = <<>>
    /\ keyError = FALSE

CfgAtRest ==
    /\ cfg_file = [exists |-> FALSE, servers |-> <<>>]
    /\ cfg_env = <<>>
    /\ cfg_log = <<>>

UrlAtRest ==
    /\ url_pc = "input"
    /\ url_in = <<>>
    /\ url_stored = <<>>
    /\ url_final = <<>>

RwAtRest ==
    /\ rw_pc = "start"
    /\ rw_servers = <<>>
    /\ rw_orig = <<>>
    /\ rw_prefer = TRUE
    /\ rw_registry_ok = TRUE
    /\ rw_failed = FALSE
    /\ rw_used = <<>>

ScopesAtRest ==
    /\ mgr = <<>>
    /\ live = {}
    /\ actor = 0

RaceAtRest ==
    /\ slots = <<>>
    /\ order = <<>>

TextAtRest ==
    /\ tx_pc = "stream"
    /\ tx_path = "rag"
    /\ tx_all = <<>>
    /\ tx_pos = 1
    /\ tx_full = <<>>
    /\ tx_out = <<>>
    /\ tx_saved = <<>>

CredAtRest ==
    /\ cr_pc = "start"
    /\ cr_desc = <<>>
    /\ cr_params = <<>>

SecAtRest ==
    /\ sec_pc = "start"
    /\ sec_cfg = <<>>
    /\ sec_req = <<>>
    /\ sec_resp = <<>>

Init ==
    /\ RequestInit
    /\ StoreEmpty
    /\ CfgAtRest /\ UrlAtRest /\ RwAtRest /\ ScopesAtRest /\ RaceAtRest
    /\ TextAtRest /\ CredAtRest /\ SecAtRest

\* ----------------------------------------------------------- scope entry
ToolRecords(p, names) == [i \in 1..Len(names) |-> [name |-> names[i], provider |-> p]]
LocalTools == <<[name |-> LocalTool, provider |-> 0]>>

\* mcp_tools + [retrieve_dosiblog_context]
CatalogRemoteFirst(mcp_tools) == mcp_tools \o LocalTools

\* The first statement of every scope body: [retrieve_dosiblog_context] + mcp_tools.
Catalog(mcp_tools) == LocalTools \o mcp_tools

\* Where the scope body starts for each handler.
BodyEntry == IF entry \in {"chat", "stream"} THEN "llm_init" ELSE "create_agent"

\* __aenter__ returns self.tools and the body builds its catalog.
AenterReturns(mcp_tools) ==
    /\ aenterEnd' = "returned"
    /\ all_tools' = Catalog(mcp_tools)
    /\ pc' = BodyEntry

\* An exception leaves __aenter__: the async-with never calls __aexit__.
AenterRaises(exc) ==
    /\ aenterEnd' = IF exc = "cancelled" THEN "cancelled" ELSE "raised"
    /\ propagated' = exc
    /\ pc' = "unwind"

\* The per-provider handler `except Exception` of __aenter__.
SetupCaughtNothing(outcome) == FALSE
SetupCaught(outcome) == outcome = "fail"

Start ==
    /\ pc = "start"
    /\ IF mode = "rag"
       THEN /\ pc' = "llm_init"
            /\ UNCHANGED <<idx, step, aenterEnd, all_tools>>
       ELSE IF nprov = 0
            THEN /\ AenterReturns(tools)
                 /\ UNCHANGED <<idx, step>>
            ELSE /\ pc' = "setup"
                 /\ idx' = 1
                 /\ step' = 1
                 /\ UNCHANGED <<aenterEnd, all_tools>>
    /\ UNCHANGED <<inputVars, sideVars, blocked, bodyExc, propagated, cancelAt, result,
                   status, advertised, sessions, tools, setupOrder, malformedAt,
                   teardownVars, agentVars, llmType, full_response, final_answer,
                   tool_calls_made, seen_tools, tools_used, events, history>>

\* End of one iteration of the provider loop.
NextProvider(mcp_tools) ==
    IF idx < nprov
    THEN /\ idx' = idx + 1
         /\ step' = 1
         /\ UNCHANGED <<pc, aenterEnd, all_tools>>
    ELSE /\ AenterReturns(mcp_tools)
         /\ UNCHANGED <<idx, step>>

\* server_config["url"] and the normalisation run before the try block.
SetupDescriptorError ==
    /\ pc = "setup" /\ ~blocked /\ step = 1
    /\ malformedAt' = idx
    /\ AenterRaises("exception")
    /\ UNCHANGED <<inputVars, sideVars, blocked, bodyExc, cancelAt, result, idx, step, status,
                   advertised, sessions, tools, setupOrder, teardownVars, agentVars,
                   handlerVars>>

\* The awaits of the try block, in the order of the statements.
SetupSteps == <<"client.__aenter__", "session.__aenter__", "session.initialize",
                "load_mcp_tools">>

\* load_mcp_tools awaited right after session.__aenter__.
StepSkipsHandshake(s) == IF s = 2 THEN 4 ELSE s + 1

\* The statement that follows an await that returned.
StepAfter(s) == s + 1

\* One of the four awaits of the try block returns.
SetupStepOk ==
    /\ pc = "setup" /\ ~blocked
    /\ IF step < Len(SetupSteps)
       THEN /\ status' = [status EXCEPT ![idx] = "connecting"]
            /\ setupOrder' = IF step = 1 THEN Append(setupOrder, idx) ELSE setupOrder
            /\ step' = StepAfter(step)
            /\ UNCHANGED <<pc, idx, advertised, sessions, tools, aenterEnd, all_tools>>
       ELSE \E tl \in ToolLists :
            /\ status' = [status EXCEPT ![idx] = "ready"]
            /\ advertised' = [advertised EXCEPT ![idx] = tl]
            /\ tools' = tools \o ToolRecords(idx, tl)
            /\ sessions' = Append(sessions, idx)
            /\ NextProvider(tools')
            /\ UNCHANGED setupOrder
    /\ UNCHANGED <<inputVars, sideVars, blocked, bodyExc, propagated, cancelAt, result, malformedAt,
                   teardownVars, agentVars, llmType, full_response, final_answer,
                   tool_calls_made, seen_tools, tools_used, events, history>>

\* One of the four awaits raises an Exception.
SetupStepFail ==
    /\ pc = "setup" /\ ~blocked
    /\ IF SetupCaught("fail")
       THEN /\ status' = [status EXCEPT ![idx] = "failed"]
            /\ NextProvider(tools)
            /\ UNCHANGED propagated
       ELSE /\ status' = [status EXCEPT ![idx] = "failed"]
            /\ AenterRaises("exception")
            /\ UNCHANGED <<idx, step, all_tools>>
    /\ UNCHANGED <<inputVars, sideVars, blocked, bodyExc, cancelAt, result, advertised, sessions,
                   tools, setupOrder, malformedAt, teardownVars, agentVars, llmType,
                   full_response, final_answer, tool_calls_made, seen_tools, tools_used,
                   events, history>>

\* One of the four awaits never returns: nothing bounds it.
SetupStepHang ==
    /\ pc = "setup" /\ ~blocked
    /\ blocked' = TRUE
    /\ UNCHANGED <<inputVars, sideVars, pc, bodyExc, propagated, cancelAt, result, setupVars,
                   teardownVars, agentVars, handlerVars>>

\* The request is cancelled while one of the four awaits is pending:
\* CancelledError is no Exception, so the handler does not catch it.
SetupStepCancel ==
    /\ pc = "setup"
    /\ blocked' = FALSE
    /\ cancelAt' = "setup"
    /\ IF SetupCaught("cancel")
       THEN /\ status' = [status EXCEPT ![idx] = "failed"]
            /\ NextProvider(tools)
            /\ UNCHANGED propagated
       ELSE /\ AenterRaises("cancelled")
            /\ UNCHANGED <<idx, step, status, all_tools>>
    /\ UNCHANGED <<inputVars, sideVars, bodyExc, result, advertised, sessions, tools, setupOrder,
                   malformedAt, teardownVars, agentVars, llmType, full_response,
                   final_answer, tool_calls_made, seen_tools, tools_used, events, history>>

\* ------------------------------------------------------------ scope body
Message == <<"q">>
TextEvent(c) == [chunk |-> c, done |-> FALSE, kind |-> "text", tool |-> ""]
ToolEvent(n) == [chunk |-> "", done |-> FALSE, kind |-> "tool", tool |-> n]
ErrorEvent == [chunk |-> "", done |-> TRUE, kind |-> "error", tool |-> ""]
FinalEvent == [chunk |-> "", done |-> TRUE, kind |-> "final", tool |-> ""]
\* `for char in content: yield {'chunk': char, 'done': False}`
CharEvents(t) == [i \in 1..Len(t) |-> TextEvent(t[i])]

\* add_ai_message(answer); add_user_message(question)
SavePairSwapped(h, u, a) ==
    h \o <<[role |-> "assistant", content |-> a], [role |-> "user", content |-> u]>>

\* add_user_message(question) alone
SaveUserOnly(h, u, a) == Append(h, [role |-> "user", content |-> u])

\* add_user_message(question); add_ai_message(answer)
SavePair(h, u, a) ==
    h \o <<[role |-> "user", content |-> u], [role |-> "assistant", content |-> a]>>

\* No handler writes the turns.
HandlerNeverSaves(e, a) == FALSE

\* Which handlers write the turns of a completed request: the streaming
\* handler only `if full_response:`, the older script never.
HandlerSaves(e, a) == e # "legacy" /\ (e = "stream" => a # <<>>)

\* The end of a handler that produced answer a for question u.
HandlerSave(e, h, u, a) == IF HandlerSaves(e, a) THEN SavePair(h, u, a) ELSE h

\* __aexit__ is entered with what left the body.
ExitScope(exc) ==
    /\ bodyExc' = exc
    /\ pc' = "teardown"
    /\ tpos' = 1
    /\ tstep' = "session"

\* The body ends by return (exc = "none"), by an exception or by cancellation.
\* The rag branches run outside any manager scope.
Leave(exc) ==
    IF mode = "rag"
    THEN /\ propagated' = exc
         /\ pc' = "unwind"
         /\ UNCHANGED <<bodyExc, tpos, tstep>>
    ELSE /\ ExitScope(exc)
         /\ UNCHANGED propagated

\* The streaming handler reports an error and returns.
EmitErrorReturn(emitted) ==
    /\ events' = events \o emitted \o <<ErrorEvent>>
    /\ result' = "error"
    /\ Leave("none")

\* create_llm_from_config succeeds.
LlmInitOk ==
    /\ pc = "llm_init"
    /\ \E t \in IF mode = "rag" THEN {"openai"} ELSE {"openai", "ollama"} :
         /\ llmType' = t
         /\ pc' = IF mode = "rag" \/ t = "ollama" THEN "direct" ELSE "create_agent"
    /\ UNCHANGED <<inputVars, sideVars, blocked, bodyExc, propagated, cancelAt, result, setupVars,
                   teardownVars, agentVars, all_tools, full_response, final_answer,
                   tool_calls_made, seen_tools, tools_used, events, history>>

\* create_llm_from_config raises.
LlmInitFails ==
    /\ pc = "llm_init"
    /\ IF entry = "stream"
       THEN EmitErrorReturn(<<>>)
       ELSE /\ Leave("exception")
            /\ UNCHANGED <<events, result>>
    /\ UNCHANGED <<inputVars, sideVars, blocked, cancelAt, setupVars, teardownLog, teardownFailed, agentVars,
                   all_tools, llmType, full_response, final_answer, tool_calls_made,
                   seen_tools, tools_used, history>>

\* The answer without an agent (mode rag, or the Ollama fallback) is produced.
DirectAnswerOk ==
    /\ pc = "direct"
    /\ \E t \in Texts :
         IF entry = "stream"
         THEN /\ events' = events \o CharEvents(t) \o <<FinalEvent>>
              /\ full_response' = t
              /\ history' = HandlerSave(entry, history, Message, t)
              /\ UNCHANGED final_answer
         ELSE /\ final_answer' = t
              /\ history' = HandlerSave(entry, history, Message, t)
              /\ UNCHANGED <<events, full_response>>
    /\ result' = "ok"
    /\ Leave("none")
    /\ UNCHANGED <<inputVars, sideVars, blocked, cancelAt, setupVars, teardownLog, teardownFailed, agentVars,
                   all_tools, llmType, tool_calls_made, seen_tools, tools_used>>

\* The model call of the direct answer raises, after some text was streamed.
DirectAnswerFails ==
    /\ pc = "direct"
    /\ IF entry = "stream"
       THEN \E t \in Texts :
              /\ EmitErrorReturn(CharEvents(t))
              /\ full_response' = t
       ELSE /\ Leave("exception")
            /\ UNCHANGED <<events, result, full_response>>
    /\ UNCHANGED <<inputVars, sideVars, blocked, cancelAt, setupVars, teardownLog, teardownFailed, agentVars,
                   all_tools, llmType, final_answer, tool_calls_made, seen_tools,
                   tools_used, history>>

\* Streaming handler: retrieve_context or the prompt set-up raises before the
\* inner try block, so only the outermost handler sees it.
DirectSetupFails ==
    /\ pc = "direct" /\ entry = "stream"
    /\ Leave("exception")
    /\ UNCHANGED <<inputVars, sideVars, blocked, cancelAt, result, setupVars, teardownLog, teardownFailed,
                   agentVars, handlerVars>>

\* create_agent succeeds.
CreateAgentOk ==
    /\ pc = "create_agent"
    /\ pc' = "agent"
    /\ agState' = "AwaitingModel"
    /\ UNCHANGED <<inputVars, sideVars, blocked, bodyExc, propagated, cancelAt, result, setupVars,
                   teardownVars, pending, unknownProposed, invokedAfterUnknown,
                   handlerVars>>

\* create_agent raises.
CreateAgentFails ==
    /\ pc = "create_agent"
    /\ IF entry = "stream"
       THEN EmitErrorReturn(<<>>)
       ELSE /\ Leave("exception")
            /\ UNCHANGED <<events, result>>
    /\ UNCHANGED <<inputVars, sideVars, blocked, cancelAt, setupVars, teardownLog, teardownFailed, agentVars,
                   all_tools, llmType, full_response, final_answer, tool_calls_made,
                   seen_tools, tools_used, history>>

\* ------------------------------------------------------------ agent loop
Min(a, b) == IF a < b THEN a ELSE b
ToolExists(n, catalog) == \E i \in DOMAIN catalog : catalog[i].name = n
CallNames == {all_tools[i].name : i \in DOMAIN all_tools} \cup {UnknownTool}
\* What one model response may ask for.
CallLists == SeqsUpTo(CallNames, MaxCalls) \ {<<>>}
KnownCalls(calls) == {calls[i] : i \in {j \in DOMAIN calls : ToolExists(calls[j], all_tools)}}
HasUnknown(calls) == \E i \in DOMAIN calls : ~ToolExists(calls[i], all_tools)

\* tools_used.append(call['name']) for each call; the model keeps MaxLog entries.
LogCalls(log, calls) == SubSeq(log \o calls, 1, Min(Len(log \o calls), MaxLog))

\* The streaming handler's walk over last_msg.tool_calls, without the return
\* after the error event.
RECURSIVE ScanCallsNoReturn(_, _, _, _)
ScanCallsNoReturn(calls, seen, made, out) ==
    IF calls = <<>>
    THEN [seen |-> seen, made |-> made, out |-> out, stopped |-> FALSE]
    ELSE IF ~ToolExists(Head(calls), all_tools)
         THEN ScanCallsNoReturn(Tail(calls), seen, made, Append(out, ErrorEvent))
         ELSE IF Head(calls) \notin seen
              THEN ScanCallsNoReturn(Tail(calls), seen \cup {Head(calls)},
                                     Append(made, Head(calls)),
                                     Append(out, ToolEvent(Head(calls))))
              ELSE ScanCallsNoReturn(Tail(calls), seen, made, out)

\* The streaming handler's walk over last_msg.tool_calls: an unknown name ends
\* the request with an error event; a name not seen before is announced.
RECURSIVE ScanCalls(_, _, _, _)
ScanCalls(calls, seen, made, out) ==
    IF calls = <<>>
    THEN [seen |-> seen, made |-> made, out |-> out, stopped |-> FALSE]
    ELSE IF ~ToolExists(Head(calls), all_tools)
         THEN [seen |-> seen, made |-> made, out |-> Append(out, ErrorEvent),
               stopped |-> TRUE]
         ELSE IF Head(calls) \notin seen
              THEN ScanCalls(Tail(calls), seen \cup {Head(calls)},
                             Append(made, Head(calls)),
                             Append(out, ToolEvent(Head(calls))))
              ELSE ScanCalls(Tail(calls), seen, made, out)

\* The agent yields an AIMessage that carries tool calls.
ModelRequestsTools ==
    /\ pc = "agent" /\ agState = "AwaitingModel"
    /\ \E calls \in CallLists :
         /\ unknownProposed' = (unknownProposed \/ HasUnknown(calls))
         /\ IF entry = "stream"
            THEN LET r == ScanCalls(calls, seen_tools, tool_calls_made, <<>>) IN
                 /\ events' = events \o r.out
                 /\ seen_tools' = r.seen
                 /\ tool_calls_made' = r.made
                 /\ IF r.stopped
                    THEN /\ result' = "error"
                         /\ Leave("none")
                         /\ UNCHANGED <<agState, pending>>
                    ELSE /\ agState' = "DispatchingTool"
                         /\ pending' = KnownCalls(calls)
                         /\ UNCHANGED <<pc, bodyExc, propagated, result, tpos, tstep>>
                 /\ UNCHANGED tools_used
            ELSE /\ tools_used' = IF entry = "chat" THEN LogCalls(tools_used, calls)
                                                    ELSE tools_used
                 /\ agState' = "DispatchingTool"
                 /\ pending' = KnownCalls(calls)
                 /\ UNCHANGED <<pc, bodyExc, propagated, result, tpos, tstep, events,
                                seen_tools, tool_calls_made>>
    /\ UNCHANGED <<inputVars, sideVars, blocked, cancelAt, setupVars, teardownLog, teardownFailed,
                   invokedAfterUnknown, all_tools, llmType, full_response, final_answer,
                   history>>

\* A tool task that goes on running whatever became of the handler.
DispatchDetached == agState = "DispatchingTool"

\* The framework runs tools only while the handler iterates agent.astream,
\* which every handler does inside the manager's async-with block.
DispatchPoint == pc = "agent" /\ agState = "DispatchingTool"

\* The agent framework runs the requested tools that exist and yields their
\* ToolMessages, which every handler skips.
ToolDispatch ==
    /\ DispatchPoint
    /\ invokedAfterUnknown' =
         (invokedAfterUnknown \/ (unknownProposed /\ pending # {}))
    /\ pending' = {}
    /\ agState' = "AwaitingModel"
    /\ UNCHANGED <<inputVars, sideVars, ctlVars, setupVars, teardownVars, unknownProposed,
                   handlerVars>>

\* The agent yields an AIMessage without tool calls: the final answer.
ModelFinalAnswer ==
    /\ pc = "agent" /\ agState = "AwaitingModel"
    /\ \E t \in Texts :
         IF entry = "stream"
         THEN /\ IF t # <<>> /\ t # full_response
                 THEN LET new_content == SubSeq(t, Len(full_response) + 1, Len(t)) IN
                      /\ events' = events \o CharEvents(new_content)
                      /\ full_response' = full_response \o new_content
                 ELSE UNCHANGED <<events, full_response>>
              /\ UNCHANGED final_answer
         ELSE /\ final_answer' = t
              /\ UNCHANGED <<events, full_response>>
    /\ agState' = "Done"
    /\ UNCHANGED <<inputVars, sideVars, ctlVars, setupVars, teardownVars, pending,
                   unknownProposed, invokedAfterUnknown, all_tools, llmType,
                   tool_calls_made, seen_tools, tools_used, history>>

\* agent.astream raises (the model call or the framework fails).
ModelFails ==
    /\ pc = "agent" /\ agState = "AwaitingModel"
    /\ IF entry = "stream"
       THEN EmitErrorReturn(<<>>)
       ELSE /\ Leave("exception")
            /\ UNCHANGED <<events, result>>
    /\ UNCHANGED <<inputVars, sideVars, blocked, cancelAt, setupVars, teardownLog, teardownFailed, agentVars,
                   all_tools, llmType, full_response, final_answer, tool_calls_made,
                   seen_tools, tools_used, history>>

\* The event stream is exhausted: the handler saves the turns and answers.
AgentStreamEnds ==
    /\ pc = "agent" /\ agState = "Done"
    /\ IF entry = "stream"
       THEN /\ history' = HandlerSave(entry, history, Message, full_response)
            /\ events' = Append(events, FinalEvent)
       ELSE /\ history' = HandlerSave(entry, history, Message, final_answer)
            /\ UNCHANGED events
    /\ result' = "ok"
    /\ Leave("none")
    /\ UNCHANGED <<inputVars, sideVars, blocked, cancelAt, setupVars, teardownLog, teardownFailed, agentVars,
                   all_tools, llmType, full_response, final_answer, tool_calls_made,
                   seen_tools, tools_used>>

\* The request is cancelled while the body awaits the agent or the model.
CancelBody ==
    /\ \/ pc = "agent"
       \/ pc = "direct" /\ entry = "stream"
    /\ cancelAt' = "body"
    /\ Leave("cancelled")
    /\ UNCHANGED <<inputVars, sideVars, blocked, result, setupVars, teardownLog, teardownFailed, agentVars,
                   handlerVars>>

\* ------------------------------------------------------------- scope exit
\* `for client, session in reversed(self.sessions)`
TeardownForward(s) == s
TeardownSequence(s) == Reverse(s)

\* The handlers `except Exception` around the awaits of __aexit__.  A wait_for
\* that expires raises TimeoutError, an Exception; CancelledError is none.
TeardownCaughtTimeoutOnly(outcome) == outcome = "timeout"
TeardownCaught(outcome) == outcome \in {"fail", "timeout"}

\* mcp_client wraps each exit in asyncio.wait_for(..., timeout=1.0); the older
\* manager awaits the exit bare.
TeardownBounded == Variant = "mcp_client"

TeardownTarget == TeardownSequence(sessions)[tpos]
LogTeardown == teardownLog' = Append(teardownLog, [provider |-> TeardownTarget, what |-> tstep])

\* The walk moves on after an exit that returned.
TeardownAdvance ==
    IF tstep = "session"
    THEN /\ tstep' = "client"
         /\ UNCHANGED tpos
    ELSE /\ tstep' = "session"
         /\ tpos' = tpos + 1

\* The walk moves on after an exit whose exception was caught: mcp_client has
\* one try block per exit, the older manager one try block around both.
TeardownSkip ==
    IF Variant = "mcp_client"
    THEN TeardownAdvance
    ELSE /\ tstep' = "session"
         /\ tpos' = tpos + 1

\* An exception the handlers do not catch leaves __aexit__ at once.
AexitRaises(exc) ==
    /\ propagated' = exc
    /\ pc' = "unwind"
    /\ UNCHANGED <<tpos, tstep>>

\* What __aexit__ does with an exit that ended in `outcome`.
TeardownHandle(outcome) ==
    IF TeardownCaught(outcome)
    THEN /\ TeardownSkip
         /\ UNCHANGED <<pc, propagated>>
    ELSE AexitRaises(IF outcome = "cancel" THEN "cancelled" ELSE "exception")

\* An awaited __aexit__ of a session or client returns.
TeardownStepOk ==
    /\ pc = "teardown" /\ ~blocked /\ tpos <= Len(sessions)
    /\ LogTeardown
    /\ TeardownAdvance
    /\ UNCHANGED <<inputVars, sideVars, ctlVars, setupVars, teardownFailed, agentVars, handlerVars>>

\* An awaited __aexit__ of a session or client raises an Exception.
TeardownStepFail ==
    /\ pc = "teardown" /\ ~blocked /\ tpos <= Len(sessions)
    /\ LogTeardown
    /\ teardownFailed' = TRUE
    /\ TeardownHandle("fail")
    /\ UNCHANGED <<inputVars, sideVars, blocked, bodyExc, cancelAt, result, setupVars, agentVars,
                   handlerVars>>

\* An awaited __aexit__ of a session or client never returns.
TeardownStepHang ==
    /\ pc = "teardown" /\ ~blocked /\ tpos <= Len(sessions)
    /\ LogTeardown
    /\ IF TeardownBounded
       THEN /\ TeardownHandle("timeout")
            /\ teardownFailed' = TRUE
            /\ UNCHANGED blocked
       ELSE /\ blocked' = TRUE
            /\ UNCHANGED <<pc, propagated, tpos, tstep, teardownFailed>>
    /\ UNCHANGED <<inputVars, sideVars, bodyExc, cancelAt, result, setupVars, agentVars,
                   handlerVars>>

\* The request is cancelled while __aexit__ awaits an exit.
TeardownStepCancel ==
    /\ pc = "teardown" /\ tpos <= Len(sessions)
    /\ IF blocked THEN UNCHANGED teardownLog ELSE LogTeardown
    /\ blocked' = FALSE
    /\ cancelAt' = "teardown"
    /\ TeardownHandle("cancel")
    /\ UNCHANGED <<inputVars, sideVars, bodyExc, result, setupVars, teardownFailed, agentVars,
                   handlerVars>>

\* __aexit__ returns None (at once when self.sessions is empty): whatever left
\* the body goes on.
AexitReturns ==
    /\ pc = "teardown" /\ ~blocked /\ tpos > Len(sessions)
    /\ sessions' = IF Variant = "mcp_client" THEN <<>> ELSE sessions
    /\ propagated' = bodyExc
    /\ pc' = "unwind"
    /\ UNCHANGED <<inputVars, sideVars, blocked, bodyExc, cancelAt, result, idx, step, status,
                   advertised, tools, setupOrder, aenterEnd, malformedAt, teardownLog,
                   tpos, tstep, teardownFailed, agentVars, handlerVars>>

\* The handler's outermost `except Exception`, or the normal end of the request.
Unwind ==
    /\ pc = "unwind"
    /\ pc' = "finished"
    /\ result' = CASE propagated = "exception" -> "error"
                   [] propagated = "cancelled" -> "cancelled"
                   [] OTHER -> result
    /\ events' = IF propagated = "exception" /\ entry = "stream"
                 THEN Append(events, ErrorEvent)
                 ELSE events
    /\ UNCHANGED <<inputVars, sideVars, blocked, bodyExc, propagated, cancelAt, setupVars,
                   teardownVars, agentVars, all_tools, llmType, full_response,
                   final_answer, tool_calls_made, seen_tools, tools_used, history>>

\* ---------------------------------------------------------- history store
MaxOps == 3         \* operations made on the store in one run
SessionIds == {"s1", "s2"}
\* The handlers that write turns into the store.
SavingEntries == {"chat", "stream", "cli"}

\* What a store operation leaves alone.
offStoreVars == <<requestVars, cfgVars, urlVars, rwVars, scopeVars, raceVars, textVars, credVars, secVars>>

\* `session_id in self.store`
HasSession(d, sid) == sid \in DOMAIN d
\* self.store[session_id] raises KeyError for an absent key.
KeyErrorAt(d, sid) == sid \notin DOMAIN d

\* ConversationHistoryManager.get_session_history: the store afterwards; the
\* object it returns is the entry of session_id.
get_session_history(d, sid) ==
    IF ~HasSession(d, sid) THEN d @@ (sid :> <<>>) ELSE d

\* ConversationHistoryManager.get_session_messages
get_session_messages(d, sid) ==
    IF HasSession(d, sid) THEN d[sid] ELSE <<>>

\* clear_session with `del self.store[session_id]` in place of .clear().
clear_session_removes(d, sid) ==
    IF HasSession(d, sid) THEN [k \in DOMAIN d \ {sid} |-> d[k]] ELSE d

\* clear_session that assigns an empty history whether or not the id is known.
clear_session_creates(d, sid) ==
    [k \in DOMAIN d \cup {sid} |-> IF k = sid THEN <<>> ELSE d[k]]

\* ConversationHistoryManager.clear_session
clear_session(d, sid) ==
    IF HasSession(d, sid) THEN [d EXCEPT ![sid] = <<>>] ELSE d

\* ConversationHistoryManager.list_sessions
list_sessions(d) == DOMAIN d

\* The three statements that end a handler: get_session_history(session_id),
\* add_user_message(question), add_ai_message(answer), with no await between.
SaveTurns(e, d, sid, u, a) ==
    IF HandlerSaves(e, a)
    THEN LET d1 == get_session_history(d, sid) IN
         [d1 EXCEPT ![sid] = HandlerSave(e, d1[sid], u, a)]
    ELSE d

Logged(op, by, sid, a, val) ==
    oplog' = Append(oplog, [op |-> op, by |-> by, sid |-> sid, a |-> a, val |-> val])

\* RunnableWithMessageHistory asks for the session's history when a rag
\* query starts.
GetSessionHistory ==
    /\ Len(oplog) < MaxOps
    /\ \E sid \in SessionIds :
         /\ store' = get_session_history(store, sid)
         /\ keyError' = (keyError \/ KeyErrorAt(store', sid))
         /\ Logged("get", "rag", sid, <<>>, store'[sid])
    /\ UNCHANGED offStoreVars

\* GET /api/session/{session_id}
GetSession ==
    /\ Len(oplog) < MaxOps
    /\ \E sid \in SessionIds :
         /\ keyError' = (keyError \/ (HasSession(store, sid) /\ KeyErrorAt(store, sid)))
         /\ Logged("messages", "api", sid, <<>>, get_session_messages(store, sid))
    /\ UNCHANGED <<offStoreVars, store>>

\* DELETE /api/session/{session_id}
ClearSession ==
    /\ Len(oplog) < MaxOps
    /\ \E sid \in SessionIds :
         /\ keyError' = (keyError \/ (HasSession(store, sid) /\ KeyErrorAt(store, sid)))
         /\ store' = clear_session(store, sid)
         /\ Logged("clear", "api", sid, <<>>, <<>>)
    /\ UNCHANGED offStoreVars

\* GET /api/sessions
ListSessions ==
    /\ Len(oplog) < MaxOps
    /\ Logged("list", "api", "", <<>>, list_sessions(store))
    /\ UNCHANGED <<offStoreVars, store, keyError>>

\* A chat request of some session ends with an answer, while other requests
\* and the session endpoints run between its awaits.
RequestCompletes ==
    /\ Len(oplog) < MaxOps
    /\ \E e \in SavingEntries, sid \in SessionIds, a \in Texts :
         /\ store' = SaveTurns(e, store, sid, Message, a)
         /\ keyError' = (keyError \/ (HandlerSaves(e, a) /\ KeyErrorAt(store', sid)))
         /\ Logged("complete", e, sid, a, <<>>)
    /\ UNCHANGED offStoreVars

\* ------------------------------------------------------ url normalisation
MaxUrl == 5         \* characters of a url a client sends
UrlChars == {"/", "s", "e", "m", "c", "p", "a"}
Urls == SeqsUpTo(UrlChars, MaxUrl)
SseSuffix == <<"/", "s", "s", "e">>
McpSuffix == <<"/", "m", "c", "p">>

\* str.rstrip('/')
RECURSIVE RStripSlash(_)
RStripSlash(u) ==
    IF u # <<>> /\ u[Len(u)] = "/" THEN RStripSlash(SubSeq(u, 1, Len(u) - 1)) ELSE u

\* str.endswith(suffix)
EndsWith(u, suffix) ==
    /\ Len(u) >= Len(suffix)
    /\ SubSeq(u, Len(u) - Len(suffix) + 1, Len(u)) = suffix

\* u[:-4]
DropLast4(u) == SubSeq(u, 1, IF Len(u) > 4 THEN Len(u) - 4 ELSE 0)

\* The endpoints without the statement that appends /mcp.
normalized_url_strip_only(url) ==
    LET stripped == RStripSlash(url) IN
    IF EndsWith(stripped, SseSuffix) THEN DropLast4(stripped) ELSE stripped

\* add_mcp_server and update_mcp_server: normalized_url
normalized_url(url) ==
    LET stripped == RStripSlash(url)
        no_sse == IF EndsWith(stripped, SseSuffix) THEN DropLast4(stripped) ELSE stripped
    IN  IF ~EndsWith(no_sse, McpSuffix) THEN RStripSlash(no_sse) \o McpSuffix ELSE no_sse

\* MCPClientManager.__aenter__: final_url
final_url(server_url) ==
    LET stripped == RStripSlash(server_url)
        no_sse == IF EndsWith(stripped, SseSuffix) THEN DropLast4(stripped) ELSE stripped
    IN  IF ~EndsWith(no_sse, McpSuffix) THEN RStripSlash(no_sse) \o McpSuffix ELSE no_sse

\* What a step on a url leaves alone.
offUrlVars == <<requestVars, storeVars, cfgVars, rwVars, scopeVars, raceVars, textVars, credVars, secVars>>

\* An endpoint writes the url a client sent into the config file.
StoreUrl ==
    /\ url_pc = "input"
    /\ url_stored' = normalized_url(url_in)
    /\ url_pc' = "stored"
    /\ UNCHANGED <<offUrlVars, url_in, url_final>>

\* The provider loop reads the stored url and connects.
ConnectStoredUrl ==
    /\ url_pc = "stored"
    /\ url_final' = final_url(url_stored)
    /\ url_pc' = "connected"
    /\ UNCHANGED <<offUrlVars, url_in, url_stored>>

\* The provider loop reads a url that was written into the file or the
\* environment variable by hand.
ConnectGivenUrl ==
    /\ url_pc = "input"
    /\ url_final' = final_url(url_in)
    /\ url_pc' = "connected_as_given"
    /\ UNCHANGED <<offUrlVars, url_in, url_stored>>

\* ------------------------------------------------- server configuration
MaxCfgOps == 3      \* requests made to the server endpoints in one run
CfgNames == {"A", "B"}
\* Urls clients send: a, a/mcp (both stored as a/mcp) and c.
CfgUrls == {<<"a">>, <<"a", "/", "m", "c", "p">>, <<"c">>}
\* What MCP_SERVERS may hold: nothing, or one server.
CfgEnvs == {<<>>, <<[name |-> "A", url |-> <<"a", "/", "m", "c", "p">>]>>}

\* What a configuration request leaves alone.
offCfgVars == <<requestVars, storeVars, urlVars, rwVars, scopeVars, raceVars, textVars, credVars, secVars>>

\* `json.load(f)` if the file exists, else []
FileServers(f) == IF f.exists THEN f.servers ELSE <<>>

\* Config.load_mcp_servers: the environment's servers, then the file's.
load_mcp_servers(env, f) == env \o FileServers(f)

\* add_mcp_server's test with no server ever found.
never_duplicate(servers, name, url) == FALSE

\* add_mcp_server: existing.get("name") == server.name or
\* existing.get("url") == server.url, with the url as the client sent it.
is_duplicate(servers, name, url) ==
    \E i \in DOMAIN servers : servers[i].name = name \/ servers[i].url = url

\* add_mcp_server: the status answered and the file afterwards.
add_mcp_server(f, name, url) ==
    LET server_config == [name |-> name, url |-> normalized_url(url)]
        servers == FileServers(f)
    IN  IF is_duplicate(servers, name, url)
        THEN [status |-> 400, file |-> f]
        ELSE [status |-> 200,
              file |-> [exists |-> TRUE, servers |-> Append(servers, server_config)]]

\* delete_mcp_server
delete_mcp_server(f, server_name) ==
    IF ~f.exists
    THEN [status |-> 404, file |-> f]
    ELSE LET servers == SelectSeq(f.servers, LAMBDA t : t.name # server_name) IN
         IF Len(servers) = Len(f.servers)
         THEN [status |-> 404, file |-> f]
         ELSE [status |-> 200, file |-> [exists |-> TRUE, servers |-> servers]]

\* update_mcp_server: the first server of that name is replaced.
update_mcp_server(f, server_name, name, url) ==
    LET server_config == [name |-> name, url |-> normalized_url(url)]
        found == {i \in DOMAIN FileServers(f) : f.servers[i].name = server_name}
    IN  IF ~f.exists \/ found = {}
        THEN [status |-> 404, file |-> f]
        ELSE LET first == CHOOSE i \in found : \A j \in found : i <= j IN
             [status |-> 200,
              file |-> [exists |-> TRUE,
                        servers |-> [f.servers EXCEPT ![first] = server_config]]]

CfgLogged(op, target, name, url, answer) ==
    cfg_log' = Append(cfg_log, [op |-> op, target |-> target, name |-> name, url |-> url,
                                status |-> answer.status,
                                file_before |-> cfg_file, file_after |-> answer.file])

\* POST /api/mcp-servers
AddServer ==
    /\ Len(cfg_log) < MaxCfgOps
    /\ \E name \in CfgNames, url \in CfgUrls :
         LET answer == add_mcp_server(cfg_file, name, url) IN
         /\ cfg_file' = answer.file
         /\ CfgLogged("add", name, name, url, answer)
    /\ UNCHANGED <<offCfgVars, cfg_env>>

\* DELETE /api/mcp-servers/{server_name}
DeleteServer ==
    /\ Len(cfg_log) < MaxCfgOps
    /\ \E server_name \in CfgNames :
         LET answer == delete_mcp_server(cfg_file, server_name) IN
         /\ cfg_file' = answer.file
         /\ CfgLogged("delete", server_name, server_name, <<>>, answer)
    /\ UNCHANGED <<offCfgVars, cfg_env>>

\* PUT /api/mcp-servers/{server_name}
UpdateServer ==
    /\ Len(cfg_log) < MaxCfgOps
    /\ \E server_name \in CfgNames, name \in CfgNames, url \in CfgUrls :
         LET answer == update_mcp_server(cfg_file, server_name, name, url) IN
         /\ cfg_file' = answer.file
         /\ CfgLogged("update", server_name, name, url, answer)
    /\ UNCHANGED <<offCfgVars, cfg_env>>

\* GET /api/mcp-servers
ListServers ==
    /\ Len(cfg_log) < MaxCfgOps
    /\ CfgLogged("list", "", "", <<>>, [status |-> 200, file |-> cfg_file])
    /\ UNCHANGED <<offCfgVars, cfg_file, cfg_env>>

\* --------------------------------------------------- local rewrite step
MaxRw == 2          \* providers in the list given to the manager
\* The name of a descriptor whose "name" is JSON null.
NullName == "<null>"
RwNames == {"math", "Math", "other", NullName}
RwUrls == {<<"ext", "e1">>, <<"ext", "e2">>}
RwHeaders == {"h0", "h1"}
RwKeys == {"k0", "k1"}
RwProviders == [name : RwNames, url : RwUrls, headers : RwHeaders, api_key : RwKeys]

\* mcp_servers/registry.py: MCP_SERVERS
Registry == {"math", "weather", "web", "people", "jack"}

\* str.lower() on the names above.
Lower(n) == IF n = "Math" THEN "math" ELSE n

\* f"{base_url}/api/mcp/{config_name}/mcp"
LocalUrl(config_name) == <<"local", config_name>>

\* A registry that knows every name.
get_mcp_server_any(server_name) == TRUE

\* registry.get_mcp_server: MCP_SERVERS.get(server_name.lower()), as a truth value
get_mcp_server(server_name) == Lower(server_name) \in Registry

\* The loop of the rewrite step from provider i on: each matching provider's
\* url is replaced in place; `.lower()` of a null name raises, which ends the
\* loop with the earlier replacements kept.
RECURSIVE RewriteFrom(_, _)
RewriteFrom(servers, i) ==
    IF i > Len(servers)
    THEN [servers |-> servers, failed |-> FALSE]
    ELSE IF servers[i].name = NullName
    THEN [servers |-> servers, failed |-> TRUE]
    ELSE LET config_name == Lower(servers[i].name) IN
         IF get_mcp_server(config_name)
         THEN RewriteFrom([servers EXCEPT ![i].url = LocalUrl(config_name)], i + 1)
         ELSE RewriteFrom(servers, i + 1)

\* The provider loop reads server_config["url"] of each provider in turn;
\* server_name.lower() of a null name raises out of __aenter__.
RECURSIVE UrlsRead(_, _)
UrlsRead(servers, i) ==
    IF i > Len(servers) \/ servers[i].name = NullName
    THEN <<>>
    ELSE <<servers[i].url>> \o UrlsRead(servers, i + 1)

\* What the rewrite step and the provider loop leave alone.
offRwVars == <<requestVars, storeVars, cfgVars, urlVars, scopeVars, raceVars, textVars, credVars, secVars>>

\* __aenter__, `if self.prefer_local:` with its try block.
LocalRewrite ==
    /\ rw_pc = "start"
    /\ rw_pc' = "rewritten"
    /\ IF ~rw_prefer
       THEN UNCHANGED <<rw_servers, rw_failed>>
       ELSE IF ~rw_registry_ok
       THEN /\ rw_failed' = TRUE
            /\ UNCHANGED rw_servers
       ELSE /\ rw_servers' = RewriteFrom(rw_servers, 1).servers
            /\ rw_failed' = RewriteFrom(rw_servers, 1).failed
    /\ UNCHANGED <<offRwVars, rw_orig, rw_prefer, rw_registry_ok, rw_used>>

\* __aenter__, `for server_config in self.mcp_servers:`
ConnectProviders ==
    /\ rw_pc = "rewritten"
    /\ rw_used' = UrlsRead(rw_servers, 1)
    /\ rw_pc' = IF \E i \in DOMAIN rw_servers : rw_servers[i].name = NullName
                THEN "raised" ELSE "connected"
    /\ UNCHANGED <<offRwVars, rw_servers, rw_orig, rw_prefer, rw_registry_ok, rw_failed>>

\* --------------------------------------------------- concurrent scopes
MaxMgrs == 2        \* requests that hold a manager at the same time
Mgrs == 1 .. MaxMgrs

\* A list of sessions that every manager of the process appends to.
RECURSIVE SessionsShared(_, _)
SessionsShared(m, r) ==
    IF r = 0 THEN <<>> ELSE SessionsShared(m, r - 1) \o m[r].sessions

\* self.sessions of manager r: a list made in its __init__.
SessionsOf(m, r) == m[r].sessions

\* What a manager's step leaves alone.
offScopeVars == <<requestVars, storeVars, cfgVars, urlVars, rwVars, raceVars, textVars, credVars, secVars>>

\* `async with MCPClientManager(mcp_servers)`: __aenter__ starts.
ScopeEnter(r) ==
    /\ mgr[r].phase = "new"
    /\ mgr' = [mgr EXCEPT ![r].phase = "setup"]
    /\ actor' = r
    /\ UNCHANGED <<offScopeVars, live>>

\* One provider is connected: its (client, session) joins self.sessions.
ScopeSetupOk(r) ==
    /\ mgr[r].phase = "setup" /\ mgr[r].idx <= MaxProviders
    /\ live' = live \cup {<<r, mgr[r].idx>>}
    /\ mgr' = [mgr EXCEPT ![r].sessions = Append(@, <<r, mgr[r].idx>>),
                          ![r].idx = @ + 1]
    /\ actor' = r
    /\ UNCHANGED offScopeVars

\* One provider fails to connect: the exception is caught, nothing is kept.
ScopeSetupFail(r) ==
    /\ mgr[r].phase = "setup" /\ mgr[r].idx <= MaxProviders
    /\ mgr' = [mgr EXCEPT ![r].idx = @ + 1]
    /\ actor' = r
    /\ UNCHANGED <<offScopeVars, live>>

\* `return self.tools`: the body of the scope runs.
ScopeSetupDone(r) ==
    /\ mgr[r].phase = "setup" /\ mgr[r].idx > MaxProviders
    /\ mgr' = [mgr EXCEPT ![r].phase = "body"]
    /\ actor' = r
    /\ UNCHANGED <<offScopeVars, live>>

\* The body ends: __aexit__ starts on reversed(self.sessions).
ScopeExit(r) ==
    /\ mgr[r].phase = "body"
    /\ mgr' = [mgr EXCEPT ![r].phase = "teardown",
                          ![r].tpos = Len(SessionsOf(mgr, r))]
    /\ actor' = r
    /\ UNCHANGED <<offScopeVars, live>>

\* __aexit__ closes the session and the transport of one entry.
ScopeClose(r) ==
    /\ mgr[r].phase = "teardown" /\ mgr[r].tpos > 0
    /\ live' = live \ {SessionsOf(mgr, r)[mgr[r].tpos]}
    /\ mgr' = [mgr EXCEPT ![r].tpos = @ - 1]
    /\ actor' = r
    /\ UNCHANGED offScopeVars

\* The closing of one entry raises or times out: suppressed, the entry stays open.
ScopeCloseFail(r) ==
    /\ mgr[r].phase = "teardown" /\ mgr[r].tpos > 0
    /\ mgr' = [mgr EXCEPT ![r].tpos = @ - 1]
    /\ actor' = r
    /\ UNCHANGED <<offScopeVars, live>>

\* `self.sessions.clear()`
ScopeDone(r) ==
    /\ mgr[r].phase = "teardown" /\ mgr[r].tpos = 0
    /\ mgr' = [mgr EXCEPT ![r].phase = "done", ![r].sessions = <<>>]
    /\ actor' = r
    /\ UNCHANGED <<offScopeVars, live>>

\* ---------------------------------------- concurrent requests, one store
MaxRace == 2        \* requests in flight in the process at the same time
RaceReqs == 1 .. MaxRace
\* The handlers that read the session's messages before they answer.
RaceEntries == {"chat", "stream"}

\* request.message of request r
Question(r) == <<"q", r>>

\* A save that writes back the messages read when the request began.
SaveBaseSnapshot(d, sid, snapshot) ==
    IF snapshot = get_session_messages(d, sid)
    THEN d
    ELSE [get_session_history(d, sid) EXCEPT ![sid] = snapshot]

\* The save appends to the store as it is when the request completes:
\* history_manager.get_session_history(request.session_id) is called anew.
SaveBase(d, sid, snapshot) == d

\* What a request's step leaves alone.
offRaceVars == <<requestVars, oplog, keyError, cfgVars, urlVars, rwVars, scopeVars, textVars, credVars, secVars>>

\* history = history_manager.get_session_messages(request.session_id);
\* messages = list(history) + [HumanMessage(...)]
RaceBegin(r) ==
    /\ slots[r].phase = "idle"
    /\ slots' = [slots EXCEPT
           ![r].phase = "running",
           ![r].snapshot = get_session_messages(store, slots[r].sid),
           ![r].overlapped = \E q \in RaceReqs :
                                /\ slots[q].phase = "running"
                                /\ slots[q].sid = slots[r].sid]
    /\ UNCHANGED <<offRaceVars, store, order>>

\* The answer is there: get_session_history, add_user_message and
\* add_ai_message run with no await between them.
RaceComplete(r) ==
    /\ slots[r].phase = "running"
    /\ store' = SaveTurns(slots[r].entry,
                          SaveBase(store, slots[r].sid, slots[r].snapshot),
                          slots[r].sid, Question(r), slots[r].answer)
    /\ slots' = [slots EXCEPT ![r].phase = "done"]
    /\ order' = Append(order, r)
    /\ UNCHANGED offRaceVars

\* The request ends in an error before its save.
RaceFail(r) ==
    /\ slots[r].phase = "running"
    /\ slots' = [slots EXCEPT ![r].phase = "failed"]
    /\ UNCHANGED <<offRaceVars, store, order>>

\* ------------------------------------------------- the text of a stream
MaxItems == 3       \* items one llm.astream yields
MaxPiece == 2       \* characters of one item's string content

\* Characters of the model's text, of a tool's result and of the text that
\* comes with a tool call.
ModelChars == {"a", "b"}
ResultText == <<"r">>
CallText == <<"c">>

\* message.content: a string, or a list of content blocks.
StrContent(t) == [type |-> "str", text |-> t, items |-> <<>>]
ListContent(items) == [type |-> "list", text |-> <<>>, items |-> items]
TextBlock(t) == [k |-> "text", text |-> t]     \* {"type": "text", "text": t}
StrBlock(t) == [k |-> "str", text |-> t]       \* a str in the list
OtherBlock == [k |-> "other", text |-> <<>>]   \* a dict with no "text"
ModelContents ==
    {StrContent(t) : t \in SeqsUpTo(ModelChars, MaxPiece)}
        \cup {ListContent(<<>>),
              ListContent(<<OtherBlock>>),
              ListContent(<<TextBlock(<<"a">>), OtherBlock, StrBlock(<<"b">>)>>)}

\* What the frameworks yield.
Chunk(c) == [kind |-> "chunk", content |-> c, tool_calls |-> <<>>]
Human == [kind |-> "human", content |-> StrContent(Message), tool_calls |-> <<>>]
AiCalls(t) == [kind |-> "ai", content |-> StrContent(t), tool_calls |-> <<LocalTool>>]
AiText(c) == [kind |-> "ai", content |-> c, tool_calls |-> <<>>]
ToolMsg == [kind |-> "tool", content |-> StrContent(ResultText), tool_calls |-> <<>>]

\* llm.astream: any chunks.
RagRuns == SeqsUpTo({Chunk(c) : c \in ModelContents}, MaxItems)

\* agent.astream(stream_mode="values"): the input, then rounds of a tool call
\* and its result, then at most one message without tool calls, which ends
\* the graph.
AgentRounds ==
    {<<>>}
        \cup {<<AiCalls(t), ToolMsg>> : t \in {<<>>, CallText}}
        \cup {<<AiCalls(t), ToolMsg, AiCalls(<<>>), ToolMsg>> : t \in {<<>>, CallText}}
AgentRuns ==
    {<<Human>> \o r \o t : r \in AgentRounds,
                           t \in {<<>>} \cup {<<AiText(c)>> : c \in ModelContents}}

\* The handlers' conversion of content_raw to a string.
RECURSIVE BlocksText(_)
BlocksText(items) ==
    IF items = <<>>
    THEN <<>>
    ELSE (IF Head(items).k \in {"text", "str"} THEN Head(items).text ELSE <<>>)
             \o BlocksText(Tail(items))
content_to_str(c) == IF c.type = "str" THEN c.text ELSE BlocksText(c.items)

\* `if chunk.content:` / `elif last_msg.content:`
Truthy(c) == IF c.type = "str" THEN c.text # <<>> ELSE c.items # <<>>

\* The agent branch: `if content and content != full_response:` then
\* content[len(full_response):]
AgentNew(content, full) ==
    IF content # <<>> /\ content # full
    THEN SubSeq(content, Len(full) + 1, Len(content))
    ELSE <<>>

\* A rag branch that takes each chunk for the whole text so far.
RagNewSliced(content, full) == SubSeq(content, Len(full) + 1, Len(content))

\* The rag branch: `for char in content_str:` over the whole chunk.
RagNew(content, full) == content

\* A handler without `isinstance(last_msg, AIMessage)`.
StreamsAny(kind) == TRUE

\* `if isinstance(last_msg, AIMessage):`
Streams(kind) == kind = "ai"

\* seen_tools: every name added to it was announced by an event.
SeenTools(out) == {out[i].tool : i \in {j \in DOMAIN out : out[j].kind = "tool"}}

\* `if tool_name not in seen_tools:` over last_msg.tool_calls
RECURSIVE Announce(_, _)
Announce(calls, seen) ==
    IF calls = <<>>
    THEN <<>>
    ELSE IF Head(calls) \in seen
    THEN Announce(Tail(calls), seen)
    ELSE <<ToolEvent(Head(calls))>> \o Announce(Tail(calls), seen \cup {Head(calls)})

\* What the text of a stream leaves alone.
offTextVars == <<requestVars, storeVars, cfgVars, urlVars, rwVars, scopeVars, raceVars,
                 credVars, secVars>>

\* The body of `async for chunk in llm.astream(...)`.
RagItem ==
    /\ tx_pc = "stream" /\ tx_path = "rag" /\ tx_pos <= Len(tx_all)
    /\ LET chunk == tx_all[tx_pos]
           new == IF Truthy(chunk.content)
                  THEN RagNew(content_to_str(chunk.content), tx_full)
                  ELSE <<>>
       IN  /\ tx_full' = tx_full \o new
           /\ tx_out' = tx_out \o CharEvents(new)
    /\ tx_pos' = tx_pos + 1
    /\ UNCHANGED <<offTextVars, tx_pc, tx_path, tx_all, tx_saved>>

\* The body of `async for event in agent.astream(...)`, every tool known.
AgentItem ==
    /\ tx_pc = "stream" /\ tx_path = "agent" /\ tx_pos <= Len(tx_all)
    /\ LET last_msg == tx_all[tx_pos] IN
       IF ~Streams(last_msg.kind)
       THEN UNCHANGED <<tx_full, tx_out>>
       ELSE IF last_msg.tool_calls # <<>>
       THEN /\ tx_out' = tx_out \o Announce(last_msg.tool_calls, SeenTools(tx_out))
            /\ UNCHANGED tx_full
       ELSE LET new == IF Truthy(last_msg.content)
                       THEN AgentNew(content_to_str(last_msg.content), tx_full)
                       ELSE <<>>
            IN  /\ tx_full' = tx_full \o new
                /\ tx_out' = tx_out \o CharEvents(new)
    /\ tx_pos' = tx_pos + 1
    /\ UNCHANGED <<offTextVars, tx_pc, tx_path, tx_all, tx_saved>>

\* The stream raises: the error event, and the handler returns.
StreamRaises ==
    /\ tx_pc = "stream" /\ tx_pos <= Len(tx_all)
    /\ tx_out' = Append(tx_out, ErrorEvent)
    /\ tx_pc' = "error"
    /\ UNCHANGED <<offTextVars, tx_path, tx_all, tx_pos, tx_full, tx_saved>>

\* The stream is exhausted: `if full_response:` the save, then the final event.
StreamEnds ==
    /\ tx_pc = "stream" /\ tx_pos > Len(tx_all)
    /\ tx_saved' = HandlerSave("stream", tx_saved, Message, tx_full)
    /\ tx_out' = Append(tx_out, FinalEvent)
    /\ tx_pc' = "done"
    /\ UNCHANGED <<offTextVars, tx_path, tx_all, tx_pos, tx_full>>

\* ------------------------------------------------- credential injection
HeaderNames == {"x-api-key", "auth", "trace"}
HeaderValues == {"v1", "v2"}
\* A name the dict has no entry for.
Unset == "<unset>"
\* server_config.get("headers", {}): a dict, as its value for every name.
HeaderDicts == [HeaderNames -> HeaderValues \cup {Unset}]
NoHeaders == [n \in HeaderNames |-> Unset]
\* server_config.get("api_key"): None, "" or a key.
NoKey == "<none>"
ApiKeys == {NoKey, "", "k1"}
\* "api_key_header" of the descriptor, when it has one.
Absent == "<absent>"
KeyHeaders == {Absent, "x-api-key", "auth"}
Descriptors == [url : {"u"}, headers : HeaderDicts, api_key : ApiKeys,
                api_key_header : KeyHeaders]

\* `if api_key:`
HasKey(server_config) == server_config.api_key \notin {NoKey, ""}

\* A header name that ignores the descriptor's api_key_header.
api_key_header_default(server_config) == "x-api-key"

\* server_config.get("api_key_header", "x-api-key")
api_key_header(server_config) ==
    IF server_config.api_key_header = Absent
    THEN "x-api-key"
    ELSE server_config.api_key_header

\* headers = dict(server_headers) if server_headers else {};
\* if api_key: headers[api_key_header] = api_key
build_headers(server_config) ==
    IF HasKey(server_config)
    THEN [server_config.headers EXCEPT ![api_key_header(server_config)] =
              server_config.api_key]
    ELSE server_config.headers

\* server_params = {"url": final_url}; `if headers:` its "headers" entry
build_server_params(server_config) ==
    LET headers == build_headers(server_config) IN
    [url |-> server_config.url,
     has_headers |-> headers # NoHeaders,
     headers |-> headers]

\* What the opening of a connection leaves alone.
offCredVars == <<requestVars, storeVars, cfgVars, urlVars, rwVars, scopeVars, raceVars,
                 textVars, secVars>>

\* client = streamablehttp_client(**server_params)
OpenConnection ==
    /\ cr_pc = "start"
    /\ cr_params' = build_server_params(cr_desc)
    /\ cr_pc' = "opened"
    /\ UNCHANGED <<offCredVars, cr_desc>>

\* ---------------------------------------------- what the endpoints answer
MaxSecServers == 2  \* servers of a stored configuration
\* The values an api_key has where one is stored.
Secrets == {"k1", "k2"}
StoredUrl == <<"a", "/", "m", "c", "p">>
\* A server dict: api_key is Unset when the dict has no such entry.
SecServers == [name : CfgNames, url : {StoredUrl}, api_key : Secrets \cup {Unset}]
\* llm_config.json: api_key is "" when none is configured.
LlmConfigs == [type : {"openai"}, model : {"m"}, api_key : Secrets \cup {""}]
SecConfigs == [servers : SeqsUpTo(SecServers, MaxSecServers), llm : LlmConfigs]
\* MCPServerRequest: api_key is Unset for None.
SecBodies == [name : CfgNames, url : {<<"a">>, StoredUrl}, api_key : {Unset, "k1"}]

\* Two configurations that differ at most in the value of api_keys that both
\* have.
SameButKeys(a, b) ==
    /\ Len(a.servers) = Len(b.servers)
    /\ \A i \in DOMAIN a.servers :
         /\ a.servers[i].name = b.servers[i].name
         /\ a.servers[i].url = b.servers[i].url
         /\ (a.servers[i].api_key = Unset) = (b.servers[i].api_key = Unset)
    /\ a.llm.type = b.llm.type /\ a.llm.model = b.llm.model
    /\ (a.llm.api_key = "") = (b.llm.api_key = "")

\* Configuration a with the keys it has replaced by those of ks and lk.
Rekey(a, ks, lk) ==
    [servers |-> [i \in DOMAIN a.servers |->
                     IF a.servers[i].api_key = Unset
                     THEN a.servers[i]
                     ELSE [a.servers[i] EXCEPT !.api_key = ks[i]]],
     llm |-> IF a.llm.api_key = "" THEN a.llm ELSE [a.llm EXCEPT !.api_key = lk]]

\* A response that keeps every entry of the dict.
unsafe_server(server) == server

\* {k: v for k, v in server.items() if k != "api_key"}
safe_server(server) == [server EXCEPT !.api_key = Unset]

\* bool(server.get("api_key"))
has_api_key(server) == server.api_key \notin {Unset, ""}

\* safe_server with its "has_api_key" entry
WithFlag(server) ==
    [name |-> safe_server(server).name, url |-> safe_server(server).url,
     api_key |-> safe_server(server).api_key, has_api_key |-> has_api_key(server)]

\* server_config of the add and update endpoints: api_key only `if server.api_key:`
ServerConfig(body) ==
    [name |-> body.name, url |-> normalized_url(body.url), api_key |-> body.api_key]

\* GET /api/mcp-servers
list_response(conf) ==
    [op |-> "list", status |-> 200, count |-> Len(conf.servers),
     servers |-> [i \in DOMAIN conf.servers |-> WithFlag(conf.servers[i])]]

\* POST /api/mcp-servers
add_response(conf, body) ==
    IF is_duplicate(conf.servers, body.name, body.url)
    THEN [op |-> "add", status |-> 400, detail |-> <<body.name, body.url>>]
    ELSE [op |-> "add", status |-> 200, server |-> safe_server(ServerConfig(body)),
          total_servers |-> Len(conf.servers) + 1]

\* PUT /api/mcp-servers/{server_name}
update_response(conf, server_name, body) ==
    IF \A i \in DOMAIN conf.servers : conf.servers[i].name # server_name
    THEN [op |-> "update", status |-> 404, detail |-> <<server_name>>]
    ELSE [op |-> "update", status |-> 200, server |-> WithFlag(ServerConfig(body))]

\* GET /api/llm-config: {k: v for k, v in config.items() if k != "api_key" or not v}
llm_response(conf) ==
    [op |-> "llm", status |-> 200,
     config |-> [conf.llm EXCEPT !.api_key = IF conf.llm.api_key # "" THEN Unset ELSE ""],
     has_api_key |-> conf.llm.api_key # ""]

\* What an answer leaves alone.
offSecVars == <<requestVars, storeVars, cfgVars, urlVars, rwVars, scopeVars, raceVars,
                textVars, credVars>>

\* The two responses to one request.
Answered(req, a, b) ==
    /\ sec_pc' = "answered"
    /\ sec_req' = req
    /\ sec_resp' = <<a, b>>
    /\ UNCHANGED <<offSecVars, sec_cfg>>

\* list_mcp_servers
AnswerList ==
    /\ sec_pc = "start"
    /\ Answered(<<"list">>, list_response(sec_cfg[1]), list_response(sec_cfg[2]))

\* add_mcp_server
AnswerAdd ==
    /\ sec_pc = "start"
    /\ \E body \in SecBodies :
         Answered(<<"add", body>>, add_response(sec_cfg[1], body),
                  add_response(sec_cfg[2], body))

\* update_mcp_server
AnswerUpdate ==
    /\ sec_pc = "start"
    /\ \E server_name \in CfgNames, body \in SecBodies :
         Answered(<<"update", server_name, body>>,
                  update_response(sec_cfg[1], server_name, body),
                  update_response(sec_cfg[2], server_name, body))

\* get_llm_config
AnswerLlm ==
    /\ sec_pc = "start"
    /\ Answered(<<"llm">>, llm_response(sec_cfg[1]), llm_response(sec_cfg[2]))

\* -------------------------------------------------------- specifications
\* Steps the event loop takes on its own.
Program ==
    \/ Start
    \/ SetupDescriptorError
    \/ SetupStepOk
    \/ SetupStepFail
    \/ SetupStepHang
    \/ LlmInitOk
    \/ LlmInitFails
    \/ DirectAnswerOk
    \/ DirectAnswerFails
    \/ DirectSetupFails
    \/ CreateAgentOk
    \/ CreateAgentFails
    \/ ModelRequestsTools
    \/ ToolDispatch
    \/ ModelFinalAnswer
    \/ ModelFails
    \/ AgentStreamEnds
    \/ TeardownStepOk
    \/ TeardownStepFail
    \/ TeardownStepHang
    \/ AexitReturns
    \/ Unwind

\* Steps the caller takes.
Cancellation ==
    \/ SetupStepCancel
    \/ CancelBody
    \/ TeardownStepCancel

Next == Program \/ Cancellation

Spec == Init /\ [][Next]_vars

\* The event loop runs a task that can run; nobody is obliged to cancel.
FairSpec == Init /\ [][Next]_vars /\ WF_vars(Program)

\* The store under any order of requests and session endpoints.
StoreInit ==
    /\ RequestAtRest
    /\ StoreEmpty
    /\ CfgAtRest /\ UrlAtRest /\ RwAtRest /\ ScopesAtRest /\ RaceAtRest
    /\ TextAtRest /\ CredAtRest /\ SecAtRest

StoreNext ==
    \/ GetSessionHistory
    \/ GetSession
    \/ ClearSession
    \/ ListSessions
    \/ RequestCompletes

StoreSpec == StoreInit /\ [][StoreNext]_vars

\* Every url a client or a config file may hold, normalised by the endpoints
\* and by the manager.
UrlInit ==
    /\ RequestAtRest
    /\ StoreEmpty
    /\ CfgAtRest /\ RwAtRest /\ ScopesAtRest /\ RaceAtRest
    /\ TextAtRest /\ CredAtRest /\ SecAtRest
    /\ url_pc = "input"
    /\ url_in \in Urls
    /\ url_stored = <<>>
    /\ url_final = <<>>

UrlNext ==
    \/ StoreUrl
    \/ ConnectStoredUrl
    \/ ConnectGivenUrl

UrlSpec == UrlInit /\ [][UrlNext]_vars

\* The server endpoints, from no config file and any MCP_SERVERS variable.
CfgInit ==
    /\ RequestAtRest
    /\ StoreEmpty
    /\ UrlAtRest /\ RwAtRest /\ ScopesAtRest /\ RaceAtRest
    /\ TextAtRest /\ CredAtRest /\ SecAtRest
    /\ cfg_file = [exists |-> FALSE, servers |-> <<>>]
    /\ cfg_env \in CfgEnvs
    /\ cfg_log = <<>>

CfgNext ==
    \/ AddServer
    \/ DeleteServer
    \/ UpdateServer
    \/ ListServers

CfgSpec == CfgInit /\ [][CfgNext]_vars

\* One manager entered with any provider list.
RwInit ==
    /\ RequestAtRest
    /\ StoreEmpty
    /\ CfgAtRest /\ UrlAtRest /\ ScopesAtRest /\ RaceAtRest
    /\ TextAtRest /\ CredAtRest /\ SecAtRest
    /\ rw_pc = "start"
    /\ rw_orig \in SeqsUpTo(RwProviders, MaxRw)
    /\ rw_servers = rw_orig
    /\ rw_prefer \in BOOLEAN
    /\ rw_registry_ok \in BOOLEAN
    /\ rw_failed = FALSE
    /\ rw_used = <<>>

RwNext ==
    \/ LocalRewrite
    \/ ConnectProviders

RwSpec == RwInit /\ [][RwNext]_vars

\* Several requests, each with a manager of its own.
ScopesInit ==
    /\ RequestAtRest
    /\ StoreEmpty
    /\ CfgAtRest /\ UrlAtRest /\ RwAtRest /\ RaceAtRest
    /\ TextAtRest /\ CredAtRest /\ SecAtRest
    /\ mgr = [r \in Mgrs |-> [phase |-> "new", idx |-> 1, sessions |-> <<>>, tpos |-> 0]]
    /\ live = {}
    /\ actor = 0

ScopesNext ==
    \/ \E r \in Mgrs : ScopeEnter(r)
    \/ \E r \in Mgrs : ScopeSetupOk(r)
    \/ \E r \in Mgrs : ScopeSetupFail(r)
    \/ \E r \in Mgrs : ScopeSetupDone(r)
    \/ \E r \in Mgrs : ScopeExit(r)
    \/ \E r \in Mgrs : ScopeClose(r)
    \/ \E r \in Mgrs : ScopeCloseFail(r)
    \/ \E r \in Mgrs : ScopeDone(r)

ScopesSpec == ScopesInit /\ [][ScopesNext]_vars

\* Several requests of one process, on the same or on different sessions.
RaceInit ==
    /\ RequestAtRest
    /\ oplog = <<>> /\ keyError = FALSE
    /\ CfgAtRest /\ UrlAtRest /\ RwAtRest /\ ScopesAtRest
    /\ TextAtRest /\ CredAtRest /\ SecAtRest
    /\ store = <<>>
    /\ slots \in [RaceReqs -> [phase : {"idle"}, entry : RaceEntries, sid : SessionIds,
                               answer : Texts, snapshot : {<<>>}, overlapped : {FALSE}]]
    /\ order = <<>>

RaceNext ==
    \/ \E r \in RaceReqs : RaceBegin(r)
    \/ \E r \in RaceReqs : RaceComplete(r)
    \/ \E r \in RaceReqs : RaceFail(r)

RaceSpec == RaceInit /\ [][RaceNext]_vars

\* One stream of either handler branch, over anything the framework yields.
TextInit ==
    /\ RequestAtRest
    /\ StoreEmpty
    /\ CfgAtRest /\ UrlAtRest /\ RwAtRest /\ ScopesAtRest /\ RaceAtRest
    /\ CredAtRest /\ SecAtRest
    /\ tx_pc = "stream"
    /\ tx_path \in {"rag", "agent"}
    /\ tx_all \in IF tx_path = "rag" THEN RagRuns ELSE AgentRuns
    /\ tx_pos = 1
    /\ tx_full = <<>>
    /\ tx_out = <<>>
    /\ tx_saved = <<>>

TextNext ==
    \/ RagItem
    \/ AgentItem
    \/ StreamRaises
    \/ StreamEnds

TextSpec == TextInit /\ [][TextNext]_vars

\* The connection to one provider, for any descriptor.
CredInit ==
    /\ RequestAtRest
    /\ StoreEmpty
    /\ CfgAtRest /\ UrlAtRest /\ RwAtRest /\ ScopesAtRest /\ RaceAtRest
    /\ TextAtRest /\ SecAtRest
    /\ cr_pc = "start"
    /\ cr_desc \in Descriptors
    /\ cr_params = <<>>

CredNext ==
    \/ OpenConnection

CredSpec == CredInit /\ [][CredNext]_vars

\* One request answered from two configurations that differ in key values.
SecInit ==
    /\ RequestAtRest
    /\ StoreEmpty
    /\ CfgAtRest /\ UrlAtRest /\ RwAtRest /\ ScopesAtRest /\ RaceAtRest
    /\ TextAtRest /\ CredAtRest
    /\ sec_pc = "start"
    /\ \E a \in SecConfigs, ks \in [1 .. MaxSecServers -> Secrets], lk \in Secrets :
         sec_cfg = <<a, Rekey(a, ks, lk)>>
    /\ SameButKeys(sec_cfg[1], sec_cfg[2])
    /\ sec_req = <<>>
    /\ sec_resp = <<>>

SecNext ==
    \/ AnswerList
    \/ AnswerAdd
    \/ AnswerUpdate
    \/ AnswerLlm

SecSpec == SecInit /\ [][SecNext]_vars

\* ------------------------------------------------------------------ claims
\* Providers with at least one teardown await made for them.
TornDown == {teardownLog[i].provider : i \in DOMAIN teardownLog}
\* Position of provider p in the order of opening.
OpenedAt(p) == CHOOSE k \in DOMAIN setupOrder : setupOrder[k] = p
\* The scope was entered and __aexit__ has ended.
ScopeExited == aenterEnd = "returned" /\ pc \in {"unwind", "finished"}

\* What the providers that came through discovery advertised, in list order.
RECURSIVE ExpectedRemote(_)
ExpectedRemote(k) ==
    IF k = 0 THEN <<>>
    ELSE ExpectedRemote(k - 1)
         \o (IF status[k] = "ready" THEN ToolRecords(k, advertised[k]) ELSE <<>>)

\* C1: a provider that fails at a setup step (transport, protocol session,
\* handshake, discovery) never makes __aenter__ raise; when __aenter__ has
\* returned every provider of the list was tried, and the catalog is the local
\* tool followed by exactly the tools of the providers that did not fail.
C1_Isolation ==
    /\ aenterEnd = "raised" => malformedAt # 0
    /\ (mode = "agent" /\ pc \notin {"start", "setup"}) => aenterEnd # "none"
    /\ aenterEnd = "returned" =>
         /\ \A p \in 1..nprov : status[p] \in {"ready", "failed"}
         /\ all_tools = LocalTools \o ExpectedRemote(nprov)
         /\ \A i \in DOMAIN all_tools :
              all_tools[i].provider # 0 => status[all_tools[i].provider] = "ready"

\* C1 witness: two providers, the first failed after its transport opened,
\* the second was still set up and its tools are in the catalog.
C1_Witness ==
    /\ aenterEnd = "returned" /\ nprov = 2
    /\ status[1] = "failed" /\ setupOrder = <<1, 2>>
    /\ status[2] = "ready" /\ Len(all_tools) = 3

\* C2 (as claimed): once the scope has exited without any cancellation, the
\* providers with a teardown attempt are exactly those whose transport opened.
C2_TeardownCoverage ==
    (ScopeExited /\ cancelAt = "none") =>
        /\ TornDown = Range(setupOrder)
        /\ Cardinality(TornDown) = Len(setupOrder)

\* C3: teardown walks the sessions in the reverse of the order in which they
\* were opened: of two providers with teardown attempts, the one opened later
\* has all its attempts first.
C3_ReverseOrder ==
    \A i, j \in DOMAIN teardownLog :
        (i < j /\ teardownLog[i].provider # teardownLog[j].provider) =>
            OpenedAt(teardownLog[i].provider) > OpenedAt(teardownLog[j].provider)

\* C3 witness: two sessions, both torn down, the second-opened first.
C3_Witness ==
    /\ pc = "finished" /\ Len(teardownLog) = 4
    /\ teardownLog[1].provider = 2 /\ teardownLog[4].provider = 1
    /\ setupOrder = <<1, 2>>

\* C4 (as claimed): no two entries of the catalog handed to the agent have the
\* same name.
C4_UniqueNames ==
    \A i, j \in DOMAIN all_tools : i # j => all_tools[i].name # all_tools[j].name

\* C5 (as claimed): in the three request paths, a request in which the model
\* proposed a name absent from the catalog ends in an error, and no tool is
\* invoked once that proposal was made.
C5_UnknownToolRejected ==
    (entry \in {"chat", "stream", "cli"} /\ unknownProposed) =>
        /\ ~invokedAfterUnknown
        /\ (pc = "finished" /\ cancelAt = "none") => result = "error"

\* C6 (as claimed): when a request was cancelled while the scope was open, in
\* the body or during teardown, every session the manager opened has had a
\* teardown attempt by the time the cancellation reaches the caller.
C6_CancellationSafety ==
    (pc = "finished" /\ cancelAt \in {"body", "teardown"}) =>
        \A p \in 1..nprov : status[p] = "ready" => p \in TornDown

\* C7: when a teardown await raises or times out, __aexit__ still ends without
\* raising: what leaves the async-with is what left the body, and every session
\* of the manager has had a teardown attempt.
C7_TeardownSwallowed ==
    (ScopeExited /\ cancelAt # "teardown") =>
        /\ propagated = bodyExc
        /\ \A p \in 1..nprov : status[p] = "ready" => p \in TornDown
        /\ (pc = "finished" /\ bodyExc = "none") => result \in {"ok", "error"}
        /\ (pc = "finished" /\ bodyExc = "none" /\ entry # "stream") => result = "ok"
        /\ (pc = "finished" /\ bodyExc = "exception") => result = "error"

\* C7 witness: two sessions, a teardown await failed, the body had returned
\* an answer and the caller got it.
C7_Witness ==
    /\ pc = "finished" /\ teardownFailed /\ Variant = "mcp_client"
    /\ Len(teardownLog) = 4 /\ bodyExc = "none" /\ result = "ok"

\* C7 witness of the other outcome: the body raised, a teardown await failed,
\* and the body's exception is what the caller sees.
C7_WitnessBodyException ==
    /\ pc = "finished" /\ teardownFailed /\ bodyExc = "exception"
    /\ result = "error" /\ teardownLog # <<>>

\* C8 (as claimed): the provider loop of __aenter__ is always left: a provider
\* that never answers does not keep the later providers from being tried.
C8_NoStarvation == (pc = "setup") ~> (pc # "setup")

\* C9 (as claimed): the agent loop is always left, also with a model that asks
\* for a tool on every turn.
C9_ToolLoopTerminates == (pc = "agent") ~> (pc # "agent")

\* C10: in the streaming endpoint an event with done=true is never followed by
\* another event, and a request that ended (not by cancellation) has emitted
\* one as its last event.
C10_StreamTermination ==
    entry = "stream" =>
        /\ \A i \in DOMAIN events : events[i].done => i = Len(events)
        /\ (pc = "finished" /\ result # "cancelled") =>
              (events # <<>> /\ events[Len(events)].done)

\* C10 witness: a stream that announced a tool and then ended on the error
\* event for an unknown tool name.
C10_Witness ==
    /\ entry = "stream" /\ pc = "finished" /\ unknownProposed
    /\ Len(events) >= 2 /\ events[1].kind = "tool"
    /\ events[Len(events)].kind = "error"

\* C10 witness of the outermost handler: the exception left the scope body,
\* went through __aexit__ and became the only done event.
C10_WitnessOuterHandler ==
    /\ entry = "stream" /\ pc = "finished" /\ bodyExc = "exception"
    /\ Len(events) = 1 /\ events[1].kind = "error"

\* ---------------------------------------------------- claims on the store
\* Operation i appended a pair of turns to its session.
Appended(i) == oplog[i].op = "complete" /\ HandlerSaves(oplog[i].by, oplog[i].a)
\* Operation i created or changed the turns of its session.
Mutated(i) == oplog[i].op \in {"get", "clear"} \/ Appended(i)
\* Session ids on which get_session_history ran before operation i.
CalledBefore(i) ==
    {oplog[k].sid : k \in {n \in 1..(i - 1) : oplog[n].op = "get" \/ Appended(n)}}
UserTurn(u) == [role |-> "user", content |-> u]
AssistantTurn(a) == [role |-> "assistant", content |-> a]

\* C11: when a handler appends (u, a) to a session nobody created before, a
\* later read of that session, with only operations on other sessions and
\* reads in between, returns exactly <<user u, assistant a>>.
C11_RoundTrip ==
    \A i, j \in DOMAIN oplog :
        ( /\ i < j
          /\ Appended(i)
          /\ oplog[i].sid \notin CalledBefore(i)
          /\ oplog[j].op \in {"messages", "get"}
          /\ oplog[j].sid = oplog[i].sid
          /\ \A k \in (i + 1)..(j - 1) : oplog[k].sid = oplog[i].sid => ~Mutated(k) )
        => oplog[j].val = <<UserTurn(Message), AssistantTurn(oplog[i].a)>>

\* C11 witness: run_agent_query saved a pair in s1, another request saved in
\* s2, then s1 was read and had two turns.
C11_Witness ==
    /\ Len(oplog) = 3
    /\ oplog[1].op = "complete" /\ oplog[1].by = "cli" /\ oplog[1].sid = "s1"
    /\ oplog[1].a = TextOf(1)
    /\ oplog[2].op = "complete" /\ oplog[2].sid = "s2" /\ Appended(2)
    /\ oplog[3].op = "messages" /\ oplog[3].sid = "s1" /\ Len(oplog[3].val) = 2

\* C12: a clear of a session of the store leaves the session in the store with
\* no turns, list_sessions reports the same ids as before, and every other
\* session keeps its turns.
C12_ClearKeepsSession ==
    [][\A sid \in SessionIds :
         ( /\ Len(oplog') = Len(oplog) + 1
           /\ oplog'[Len(oplog')].op = "clear"
           /\ oplog'[Len(oplog')].sid = sid
           /\ sid \in DOMAIN store )
         => /\ sid \in list_sessions(store')
            /\ list_sessions(store') = list_sessions(store)
            /\ store'[sid] = <<>>
            /\ \A t \in DOMAIN store \ {sid} : store'[t] = store[t]]_vars

\* C12 witness: s1 and s2 had turns, s1 was cleared: s1 is still listed and
\* is empty, s2 has its two turns.
C12_Witness ==
    /\ Len(oplog) = 3 /\ Appended(1) /\ oplog[1].sid = "s1"
    /\ Appended(2) /\ oplog[2].sid = "s2"
    /\ oplog[3].op = "clear" /\ oplog[3].sid = "s1"
    /\ list_sessions(store) = {"s1", "s2"}
    /\ store["s1"] = <<>> /\ Len(store["s2"]) = 2

\* C13: the ids list_sessions reports are exactly those on which
\* get_session_history has run (directly or at the end of a handler), in the
\* store as it is and in every answer the sessions endpoint gave; a clear or a
\* read of an unknown id adds none, and no operation met a missing key.
C13_SessionEnumeration ==
    /\ list_sessions(store) = CalledBefore(Len(oplog) + 1)
    /\ \A i \in DOMAIN oplog : oplog[i].op = "list" => oplog[i].val = CalledBefore(i)
    /\ ~keyError

\* C13 witness: an unknown id was cleared, another id was created, and the
\* listing shows only the created one.
C13_Witness ==
    /\ Len(oplog) = 3
    /\ oplog[1].op = "clear" /\ oplog[1].sid = "s1"
    /\ oplog[2].op = "get" /\ oplog[2].sid = "s2"
    /\ oplog[3].op = "list" /\ oplog[3].val = {"s2"}

\* C14: every session of the store holds an even number of turns that
\* alternate user, assistant, whatever the order of completed requests of the
\* three handlers and of clears.
C14_HistoryShape ==
    \A sid \in DOMAIN store :
        /\ Len(store[sid]) % 2 = 0
        /\ \A i \in DOMAIN store[sid] :
             store[sid][i].role = IF i % 2 = 1 THEN "user" ELSE "assistant"

\* C14 witness: after a clear, the non-streaming and the streaming handler
\* each completed a request of s1, which holds four turns.
C14_Witness ==
    /\ Len(oplog) = 3 /\ oplog[1].op = "clear"
    /\ oplog[2].by = "chat" /\ oplog[3].by = "stream"
    /\ "s1" \in DOMAIN store /\ Len(store["s1"]) = 4

\* -------------------------------------------- claims on a request, continued
\* The answer the caller of the request was given.
Answer == IF entry = "stream" THEN full_response ELSE final_answer

\* C15 (as claimed): a request of the three handlers that completed without a
\* request-level error has added exactly the pair <<user message, assistant
\* answer>> to its session, also when the answer is empty.
C15_OnePairPerRequest ==
    (pc = "finished" /\ result = "ok" /\ entry \in SavingEntries) =>
        history = <<UserTurn(Message), AssistantTurn(Answer)>>

\* C16 (as claimed): a request whose agent loop ended is never answered as a
\* success with an empty answer.
C16_NoSilentEmptyAnswer ==
    (pc = "finished" /\ result = "ok" /\ agState = "Done" /\ entry \in SavingEntries) =>
        Answer # <<>>

\* C17 (as claimed): when __aenter__ raised for a malformed descriptor, no
\* connection to any provider had been attempted and no session is open.
C17_ValidationBeforeConnections ==
    malformedAt # 0 => (setupOrder = <<>> /\ sessions = <<>>)

\* The entries of the catalog that came from provider p.
ToolsOf(p) == SelectSeq(all_tools, LAMBDA t : t.provider = p)

\* C18: the catalog handed to the agent starts with the local tool, then holds
\* the remote tools by ascending position of their provider in the list, each
\* provider's tools in the order it returned them; a failed provider has no
\* entry.
C18_CatalogOrder ==
    aenterEnd = "returned" =>
        /\ all_tools[1] = [name |-> LocalTool, provider |-> 0]
        /\ \A i \in 2..Len(all_tools) :
             /\ all_tools[i].provider \in 1..nprov
             /\ all_tools[i - 1].provider <= all_tools[i].provider
        /\ \A p \in 1..nprov :
             /\ status[p] = "ready" =>
                  ToolsOf(p) = [k \in 1..Len(advertised[p]) |->
                                   [name |-> advertised[p][k], provider |-> p]]
             /\ status[p] # "ready" => ToolsOf(p) = <<>>

\* C18 witness: the first provider returned calc, search and the second
\* search: the catalog is local, calc, search, search.
C18_Witness ==
    /\ aenterEnd = "returned" /\ Len(all_tools) = 4
    /\ advertised[1] = <<"calc", "search">> /\ advertised[2] = <<"search">>
    /\ all_tools[2].name = "calc" /\ all_tools[3].provider = 1
    /\ all_tools[4].provider = 2

\* The providers whose tools the framework is about to run.
PendingProviders ==
    {all_tools[i].provider : i \in {k \in DOMAIN all_tools : all_tools[k].name \in pending}}

\* C19: every step in which the framework runs tools is taken inside the
\* manager's scope, before any teardown await, and every provider of a tool
\* it runs has an open session.
C19_DispatchInsideScope ==
    [][(agState = "DispatchingTool" /\ agState' = "AwaitingModel") =>
          /\ pc = "agent" /\ aenterEnd = "returned"
          /\ teardownLog = <<>>
          /\ \A p \in PendingProviders \ {0} :
               status[p] = "ready" /\ p \in Range(sessions)]_vars

\* C19 witness: the streaming handler announced the remote tool search, the
\* framework ran it, and the loop is waiting for the model again.
C19_Witness ==
    /\ entry = "stream" /\ pc = "agent" /\ agState = "AwaitingModel"
    /\ tool_calls_made = <<"search">> /\ teardownLog = <<>>

\* C20 (as claimed): in the streaming handler, when the model's response makes
\* the framework dispatch tools, the handler emits in that step, for every
\* tool dispatched, an event with an empty chunk and the tool's name.
C20_ToolNotifications ==
    [][(entry = "stream" /\ agState = "AwaitingModel" /\ agState' = "DispatchingTool") =>
          \A n \in pending' :
              \E i \in (Len(events) + 1)..Len(events') :
                  /\ events'[i].kind = "tool"
                  /\ events'[i].tool = n
                  /\ events'[i].chunk = ""]_vars

\* C24: within one provider the awaits are made in the order transport,
\* protocol session, handshake, tool listing, each only after the one before
\* it returned; a provider becomes ready, and its tools are appended to
\* self.tools, only in the step in which its tool listing returned.
C24_SetupStepOrder ==
    [][/\ (step' # step /\ step' # 1) =>
            /\ step' = step + 1 /\ idx' = idx
            /\ status'[idx] = "connecting"
       /\ (SetupSteps[4] = "load_mcp_tools" /\ SetupSteps[3] = "session.initialize")
       /\ \A p \in Providers :
            (status'[p] = "ready" /\ status[p] # "ready") =>
                /\ p = idx /\ step = 4 /\ status[p] = "connecting"
       /\ tools' # tools =>
            /\ step = 4 /\ status'[idx] = "ready"
            /\ tools' = tools \o ToolRecords(idx, advertised'[idx])]_vars

\* C24 witness: the first provider went through its four awaits and its two
\* tools are in self.tools; the second is at its handshake.
C24_Witness ==
    /\ pc = "setup" /\ idx = 2 /\ step = 3
    /\ status[1] = "ready" /\ advertised[1] = <<"calc", "search">>
    /\ Len(tools) = 2 /\ status[2] = "connecting"

\* C25 (as claimed): a transport teardown is attempted only after the
\* protocol-session teardown of the same provider, and once __aexit__ has
\* ended every provider whose protocol-session teardown was attempted has had
\* its transport teardown attempted too.
C25_SessionThenTransport ==
    /\ \A i \in DOMAIN teardownLog :
         teardownLog[i].what = "client" =>
             \E j \in 1..(i - 1) :
                 /\ teardownLog[j].provider = teardownLog[i].provider
                 /\ teardownLog[j].what = "session"
    /\ (ScopeExited /\ cancelAt # "teardown") =>
         \A i \in DOMAIN teardownLog :
             teardownLog[i].what = "session" =>
                 \E j \in (i + 1)..Len(teardownLog) :
                     /\ teardownLog[j].provider = teardownLog[i].provider
                     /\ teardownLog[j].what = "client"

\* No trailing slash, no /sse at the end, /mcp at the end.
Canonical(u) ==
    /\ u # <<>> /\ u[Len(u)] # "/"
    /\ ~EndsWith(u, SseSuffix)
    /\ EndsWith(u, McpSuffix)

Listing(f) == load_mcp_servers(cfg_env, f)

\* C21 (as claimed): an add whose name, or whose url in the form in which
\* urls are stored, equals that of a server of the file is answered 400 and
\* leaves the file as it was.
C21_DuplicateRejected ==
    \A i \in DOMAIN cfg_log :
        ( /\ cfg_log[i].op = "add"
          /\ \E k \in DOMAIN FileServers(cfg_log[i].file_before) :
               \/ cfg_log[i].file_before.servers[k].name = cfg_log[i].name
               \/ cfg_log[i].file_before.servers[k].url = normalized_url(cfg_log[i].url) )
        => /\ cfg_log[i].status = 400
           /\ cfg_log[i].file_after = cfg_log[i].file_before

\* C22: an add answered 200 makes the listing one longer, and a delete of
\* the added name right after it is answered 200 and gives back the listing
\* of before the add.
C22_AddDeleteRoundTrip ==
    \A i \in DOMAIN cfg_log :
        (cfg_log[i].op = "add" /\ cfg_log[i].status = 200) =>
            /\ Len(Listing(cfg_log[i].file_after)) = Len(Listing(cfg_log[i].file_before)) + 1
            /\ ( /\ i < Len(cfg_log)
                 /\ cfg_log[i + 1].op = "delete"
                 /\ cfg_log[i + 1].target = cfg_log[i].name )
               => /\ cfg_log[i + 1].status = 200
                  /\ Listing(cfg_log[i + 1].file_after) = Listing(cfg_log[i].file_before)

\* C22 witness: with a server in the environment and one in the file, B was
\* added and deleted again.
C22_Witness ==
    /\ Len(cfg_log) = 3 /\ cfg_env # <<>>
    /\ cfg_log[1].op = "add" /\ cfg_log[1].status = 200
    /\ cfg_log[2].op = "add" /\ cfg_log[2].name = "B" /\ cfg_log[2].status = 200
    /\ cfg_log[3].op = "delete" /\ cfg_log[3].target = "B" /\ cfg_log[3].status = 200
    /\ Len(Listing(cfg_file)) = 2

\* C23 (as claimed): a delete or update of a name no server of the file has
\* is answered 404 and leaves the file as it was, and every name the listing
\* reports can be deleted.
C23_MissingServer ==
    /\ \A i \in DOMAIN cfg_log :
         ( /\ cfg_log[i].op \in {"delete", "update"}
           /\ \A k \in DOMAIN FileServers(cfg_log[i].file_before) :
                cfg_log[i].file_before.servers[k].name # cfg_log[i].target )
         => /\ cfg_log[i].status = 404
            /\ cfg_log[i].file_after = cfg_log[i].file_before
    /\ \A k \in DOMAIN Listing(cfg_file) :
         delete_mcp_server(cfg_file, Listing(cfg_file)[k].name).status = 200

\* ------------------------------------------- claims on the local rewrite
\* C29 (as claimed): when the rewrite step failed, every url the provider
\* loop reads to connect is the one the provider was given with.
C29_RewriteFallsBack ==
    rw_failed => \A i \in DOMAIN rw_used : rw_used[i] = rw_orig[i].url

\* C30: after the rewrite step the list has the providers it had, in their
\* order, each with its name, headers and credential; a url that changed is
\* that of a provider whose lowered name is in the registry.
C30_RewriteFrame ==
    rw_pc # "start" =>
        /\ Len(rw_servers) = Len(rw_orig)
        /\ \A i \in DOMAIN rw_orig :
             /\ rw_servers[i].name = rw_orig[i].name
             /\ rw_servers[i].headers = rw_orig[i].headers
             /\ rw_servers[i].api_key = rw_orig[i].api_key
             /\ rw_servers[i].url # rw_orig[i].url => Lower(rw_orig[i].name) \in Registry

\* C30 witness: of two providers, Math was given the local url and the
\* other kept its own.
C30_Witness ==
    /\ rw_pc = "rewritten" /\ Len(rw_orig) = 2
    /\ rw_orig[1].name = "Math" /\ rw_servers[1].url = LocalUrl("math")
    /\ rw_orig[2].name = "other" /\ rw_servers[2].url = rw_orig[2].url

\* ------------------------------------------ claims on concurrent scopes
\* C26: a step of one request's manager opens or closes only sessions that
\* this manager opened, and leaves every other manager as it was.
C26_RequestIndependence ==
    [][ /\ \A h \in (live \ live') \cup (live' \ live) : h[1] = actor'
        /\ \A q \in Mgrs : q # actor' => mgr'[q] = mgr[q] ]_vars

\* C26 witness: the first manager has torn down its two sessions while the
\* second holds its two sessions open.
C26_Witness ==
    /\ mgr # <<>>
    /\ mgr[1].phase = "teardown" /\ mgr[1].tpos = 0 /\ Len(mgr[1].sessions) = 2
    /\ mgr[2].phase = "body"
    /\ live = {<<2, 1>>, <<2, 2>>}

\* ---------------------------------------- claims on concurrent requests
\* The turns that the requests of `done`, in that order, write to sid.
RECURSIVE PairsInOrder(_, _)
PairsInOrder(done, sid) ==
    IF done = <<>>
    THEN <<>>
    ELSE LET r == Head(done) IN
         (IF slots[r].sid = sid /\ HandlerSaves(slots[r].entry, slots[r].answer)
          THEN <<UserTurn(Question(r)), AssistantTurn(slots[r].answer)>>
          ELSE <<>>) \o PairsInOrder(Tail(done), sid)

C31_UniqueNames ==
    \A i, j \in DOMAIN Listing(cfg_file) :
        i # j => Listing(cfg_file)[i].name # Listing(cfg_file)[j].name

\* ------------------------------------------- claims on a request, the end
\* The caller was given the request's outcome: the final event of a stream.
\* The other handlers answer only after the scope is left.
DoneEmitted == \E i \in DOMAIN events : events[i] = FinalEvent

\* C35 (as claimed): a request that ended in an error or was cancelled
\* before its caller was given the outcome has appended nothing to the
\* session's history.
C35_HistoryUnchangedOnFailure ==
    ( /\ pc = "finished"
      /\ result \in {"error", "cancelled"}
      /\ entry = "stream" => ~DoneEmitted )
    => history = <<>>

RECURSIVE Payload(_)
Payload(out) ==
    IF out = <<>>
    THEN <<>>
    ELSE (IF Head(out).chunk # "" THEN <<Head(out).chunk>> ELSE <<>>) \o Payload(Tail(out))

\* The text a message's content stands for.
TextIn(c) ==
    IF c.type = "str"
    THEN c.text
    ELSE LET texts == SelectSeq(c.items, LAMBDA b : b.k # "other")
             Cat[i \in 0 .. Len(texts)] ==
                 IF i = 0 THEN <<>> ELSE Cat[i - 1] \o texts[i].text
         IN  Cat[Len(texts)]

\* The model's answer: all the chunks of llm.astream, or the agent's last
\* message when it carries no tool call.
ModelAnswer ==
    IF tx_path = "rag"
    THEN LET Cat[i \in 0 .. Len(tx_all)] ==
                 IF i = 0 THEN <<>> ELSE Cat[i - 1] \o TextIn(tx_all[i].content)
         IN  Cat[Len(tx_all)]
    ELSE LET last == tx_all[Len(tx_all)] IN
         IF last.kind = "ai" /\ last.tool_calls = <<>> THEN TextIn(last.content) ELSE <<>>

\* C32: in an agent stream every non-empty chunk is a character of a message
\* of the model that carries no tool call and that the handler has been
\* given; none is a character of a tool's result.
C32_ToolResultsNotStreamed ==
    tx_path = "agent" =>
        \A e \in DOMAIN tx_out :
            tx_out[e].chunk # "" =>
                /\ tx_out[e].chunk \notin Range(ResultText)
                /\ \E i \in 1 .. tx_pos - 1 :
                     /\ tx_all[i].kind = "ai" /\ tx_all[i].tool_calls = <<>>
                     /\ tx_out[e].chunk \in Range(TextIn(tx_all[i].content))

\* C32 witness: a tool was called with text beside the call, its result came
\* back, and the answer ab was streamed after it.
C32_Witness ==
    /\ tx_path = "agent" /\ tx_pc = "done"
    /\ tx_all = <<Human, AiCalls(CallText), ToolMsg, AiText(StrContent(<<"a", "b">>))>>
    /\ Payload(tx_out) = <<"a", "b">>

SentHeaders == IF cr_params.has_headers THEN cr_params.headers ELSE NoHeaders

\* The header that is to carry the credential.
CredentialHeader ==
    IF cr_desc.api_key_header = Absent THEN "x-api-key" ELSE cr_desc.api_key_header

\* C36: a connection for a descriptor with a credential is opened with the
\* credential under the descriptor's api_key_header, x-api-key when it has
\* none, and with every other configured header as configured; for a
\* descriptor without a credential, with the configured headers.
C36_CredentialInjection ==
    cr_pc = "opened" =>
        IF cr_desc.api_key \notin {NoKey, ""}
        THEN /\ SentHeaders[CredentialHeader] = cr_desc.api_key
             /\ \A n \in HeaderNames \ {CredentialHeader} :
                  SentHeaders[n] = cr_desc.headers[n]
        ELSE SentHeaders = cr_desc.headers

\* C36 witness: the credential k1 went out as header auth in place of the
\* configured auth header, beside the configured trace header.
C36_Witness ==
    /\ cr_pc = "opened"
    /\ cr_desc.api_key = "k1" /\ cr_desc.api_key_header = "auth"
    /\ cr_desc.headers = [NoHeaders EXCEPT !["auth"] = "v1", !["trace"] = "v2"]
    /\ SentHeaders = [NoHeaders EXCEPT !["auth"] = "k1", !["trace"] = "v2"]

\* --------------------------------------------- claims on confidentiality
\* The api_key entries that a response carries.
KeysIn(resp) ==
    CASE resp.op = "list" -> {resp.servers[i].api_key : i \in DOMAIN resp.servers}
      [] resp.op \in {"add", "update"} ->
             IF resp.status = 200 THEN {resp.server.api_key} ELSE {}
      [] resp.op = "llm" -> {resp.config.api_key}

\* C37: no response of the list, add, update and llm-config endpoints carries
\* the value of an api_key, and the responses from two configurations that
\* differ only in the values of their api_keys are the same.
C37_CredentialConfidentiality ==
    sec_pc = "answered" =>
        /\ KeysIn(sec_resp[1]) \cap Secrets = {}
        /\ KeysIn(sec_resp[2]) \cap Secrets = {}
        /\ sec_resp[1] = sec_resp[2]

\* C37 witness: the servers were listed from two configurations whose one
\* server has key k1 here and k2 there.
C37_Witness ==
    /\ sec_pc = "answered" /\ sec_req = <<"list">>
    /\ Len(sec_cfg[1].servers) = 1
    /\ sec_cfg[1].servers[1].api_key = "k1"
    /\ sec_cfg[2].servers[1].api_key = "k2"
    /\ sec_resp[1].servers[1].has_api_key

====
